---- MODULE Spec2Model ----
(***************************************************************************)
(* Batch orchestrator of the K-market screener: run_analysis and the       *)
(* per-instrument worker analyze_symbol, the daily result cache and the    *)
(* line-oriented output channel.                                           *)
(*                                                                         *)
(* Two script variants are modelled:                                       *)
(*   "dart" : teset_athena_k_market_ai_only_pattern_delete_2 (cache,       *)
(*            ranking, top_n, --symbol), same orchestration as the prod    *)
(*            script athena_k_market_ai_prod.py;                           *)
(*   "ai"   : athena_k_market_ai.py (no cache, error records, the          *)
(*            temporary ten-instrument limit).                             *)
(***************************************************************************)
EXTENDS Integers, Sequences, FiniteSets, TLC

\* ------------------------------------------------------------------ bounds
MaxStocks == 2
MaxListing == 3      \* longest listing drawn from the record pool
MaxWorkers == 2      \* largest --workers value
MaxTopN    == 2      \* largest --top_n value
MaxDay     == 2      \* calendar days the clock can show

\* ------------------------------------------------------- program constants
TestLimit     == 10  \* items = items[:10]
MinBars       == 250 \* len(df_raw) < 250 -> None           ("dart")
MinBarsAi     == 50  \* len(df_raw) < 50 -> None            ("ai")
SmaWindow     == 200 \* SMAIndicator(window=200, fillna=False): NaN on the first 199 rows
AnalyzeWindow == 250 \* df_full.iloc[-250:]
MinRows       == 200 \* len(df_analyze) < 200 -> None       ("dart")
RecentWindow  == 250 \* t >= len(df) - 250
MinDuration   == 30  \* min_duration=30
TolerancePct  == 5   \* tolerance=0.05
MinRetracePct == 10  \* min_retrace=0.1 ("dart"), interim_high / min < 1.1 ("ai")
HandleDropPct == 30  \* handle_drop_ratio=0.3
MinLenDb      == 50  \* find_double_bottom: len(df) < 50     ("ai")
MinLenCh      == 100 \* find_cup_and_handle: len(df) < 100   ("ai")
MinLenTb      == 75  \* find_triple_bottom: len(df) < 75     ("ai")
MinDurationTotal == 75 \* min_duration_total=75
RetentionDays == 7   \* cleanup_old_cache(days=7)

NoneVal == "None"    \* Python None

Min(a, b) == IF a < b THEN a ELSE b

\* ------------------------------------------------------------ environment
\* A listing record is a JSON value: a dict carrying a Code, or anything else.
Rec(code) == [dict |-> TRUE, Code |-> code]
Junk      == [dict |-> FALSE, Code |-> "junk"]

\* The price store: what DATA_DIR / f"{code}.parquet" holds for each code.
\*   stat "ok"      : readable parquet file with `bars` rows
\*   stat "badfile" : the file exists but pd.read_parquet raises
\*   stat "oserror" : path.exists() itself raises OSError (e.g. ENAMETOOLONG)
\*   stat "nofile"  : no file
\*   above          : per moving-average window, last close > last average
\*                    (no series of the store closes exactly on an average)
Periods == {20, 50, 200}          \* ma_cols: the windows with an SMA column
Windows == {5} \cup Periods       \* the windows a run may request
Flags(a20, a50, a200) ==
    [ p \in Windows |-> IF p <= 20 THEN a20 ELSE IF p = 50 THEN a50 ELSE a200 ]

\* "D" and "G" are strictly declining series of 300 and 400 bars: the last
\* close is the minimum of every window, below every average.
PriceStore(code) ==
    CASE code = "A" -> [stat |-> "ok", bars |-> 400, regime |-> 2, above |-> Flags(TRUE, TRUE, TRUE)]
      [] code = "B" -> [stat |-> "ok", bars |-> 400, regime |-> 0, above |-> Flags(FALSE, FALSE, FALSE)]
      [] code = "C" -> [stat |-> "ok", bars |-> 400, regime |-> 2, above |-> Flags(TRUE, FALSE, FALSE)]
      [] code = "S" -> [stat |-> "ok", bars |-> 100, regime |-> 1, above |-> Flags(TRUE, TRUE, FALSE)]
      [] code = "D" -> [stat |-> "ok", bars |-> 300, regime |-> 1, above |-> Flags(FALSE, FALSE, FALSE)]
      [] code = "G" -> [stat |-> "ok", bars |-> 400, regime |-> 1, above |-> Flags(FALSE, FALSE, FALSE)]
      [] code = "E" -> [stat |-> "badfile", bars |-> 0, regime |-> -1, above |-> Flags(FALSE, FALSE, FALSE)]
      [] code = "L" -> [stat |-> "oserror", bars |-> 0, regime |-> -1, above |-> Flags(FALSE, FALSE, FALSE)]
      [] OTHER      -> [stat |-> "nofile", bars |-> 0, regime |-> -1, above |-> Flags(FALSE, FALSE, FALSE)]

StrictlyDeclining(code) == code \in {"D", "G"}

RecordPool == << Rec("B"), Rec("A"), Rec("C"), Rec("S"), Rec("E"), Rec("L"), Junk >>

RECURSIVE PickFrom(_, _)
\* the sub-listing of RecordPool at the index set I, in pool order
PickFrom(I, k) ==
    IF k > Len(RecordPool) THEN << >>
    ELSE IF k \in I THEN << RecordPool[k] >> \o PickFrom(I, k + 1)
    ELSE PickFrom(I, k + 1)

SmallListings ==
    { PickFrom(I, 1) : I \in { J \in SUBSET (1 .. Len(RecordPool)) : Cardinality(J) <= MaxListing } }

NoFileCodes == << "N01", "N02", "N03", "N04", "N05", "N06", "N07", "N08", "N09", "N10", "N11" >>
\* a listing one record longer than the ten-instrument test limit
LongListing == [ i \in 1 .. (TestLimit + 1) |-> Rec(NoFileCodes[i]) ]

Filters  == { NoneVal, "regime:2" }
TopNs    == 0 .. MaxTopN
Symbols  == { NoneVal, "A", "Z" }
Days     == 1 .. MaxDay

\* ------------------------------------------------------------- JSON layer
\* Python values carry their type ("np.bool_" from a pandas comparison, "bool"
\* after json.load); a JSON document carries JSON literals ("json").
\* CustomJsonEncoder.default: np.bool_ -> bool, then written as true/false
EncodeValue(v) == [t |-> "json", v |-> v.v]
\* the JSON literal true/false read back by json.load is a native bool
DecodeValue(j) == [t |-> "bool", v |-> j.v]

\* json.dumps(obj, cls=CustomJsonEncoder) of one InstrumentResult dict
DumpResult(r) ==
    [ ticker |-> r.ticker,
      technical_conditions |->
          [ above_ma      |-> [ p \in DOMAIN r.technical_conditions.above_ma |->
                                    EncodeValue(r.technical_conditions.above_ma[p]) ],
            market_regime |-> r.technical_conditions.market_regime ],
      sort_score |-> r.sort_score ]

LoadResult(j) ==
    [ ticker |-> j.ticker,
      technical_conditions |->
          [ above_ma      |-> [ p \in DOMAIN j.technical_conditions.above_ma |->
                                    DecodeValue(j.technical_conditions.above_ma[p]) ],
            market_regime |-> j.technical_conditions.market_regime ],
      sort_score |-> j.sort_score ]

\* json.dumps of the final_output dict (one output line, one cache file body)
JsonDumps(obj) == [ obj EXCEPT !.results = [ i \in DOMAIN obj.results |-> DumpResult(obj.results[i]) ] ]

\* json.load of a cache file body
JsonLoad(text) == [ text EXCEPT !.results = [ i \in DOMAIN text.results |-> LoadResult(text.results[i]) ] ]

\* ------------------------------------------------------------- the worker
\* x.get('sort_score', -1)
SortKey(r) == IF r.sort_score = << >> THEN -1 ELSE r.sort_score[1]

\* check_ma_conditions ("dart"): above_ma{p} for each requested window; a
\* window without an SMA column gets the constant False
check_ma_conditions(ps, st) ==
    [ above_ma |-> [ p \in ps |-> IF p \in Periods
                                  THEN [t |-> "np.bool_", v |-> st.above[p]]
                                  ELSE [t |-> "bool", v |-> FALSE] ],
      market_regime |-> st.regime ]

\* check_ma_conditions ("ai"): the other windows get a rolling mean of their own
check_ma_conditions_ai(ps, st) ==
    [ above_ma |-> [ p \in ps |-> [t |-> "np.bool_", v |-> st.above[p]] ],
      market_regime |-> st.regime ]

\* the filter branch of analyze_symbol ("dart"): is_match
IsMatch(flt, ps, st) ==
    IF flt = NoneVal THEN TRUE
    ELSE IF flt = "regime:2" THEN st.regime = 2
    ELSE IF flt = "ma"
    THEN \A p \in ps \cap Periods : check_ma_conditions(ps, st).above_ma[p].v
    ELSE IF flt = "all_below_ma" THEN \A p \in ps \cap Periods : ~st.above[p]
    ELSE FALSE

\* the filter branch of analyze_symbol ("ai"): no 'all_below_ma' branch
IsMatchAi(flt, ps, st) ==
    IF flt = NoneVal THEN TRUE
    ELSE IF flt = "regime:2" THEN st.regime = 2
    ELSE IF flt = "ma" THEN \A p \in ps : check_ma_conditions_ai(ps, st).above_ma[p].v
    ELSE FALSE

\* the InstrumentResult dict; sort_score is the regime label ("dart" only)
MakeResult(code, tc, withScore) ==
    [ ticker |-> code,
      technical_conditions |-> tc,
      sort_score |-> IF withScore THEN << tc.market_regime >> ELSE << >> ]

\* rows left of `bars` rows by calculate_advanced_features (dropna over the
\* feature subset, SMA_200 among it) and df_full.iloc[-250:]
RowsAnalysed(bars) ==
    LET kept == IF bars >= SmaWindow THEN bars - (SmaWindow - 1) ELSE 0
    IN  Min(kept, AnalyzeWindow)

Outcome(kind, val) == [kind |-> kind, val |-> val]

\* analyze_symbol of the "dart" script: what the submitted task returns or raises.
\*   kind "raise"  : the exception leaves the worker (code before the try block)
\*   kind "none"   : return None
\*   kind "result" : return the InstrumentResult dict
analyze_symbol(item, ps, flt) ==
    IF ~item.dict THEN Outcome("raise", << >>)              \* item.get on a non-dict
    ELSE LET st == PriceStore(item.Code) IN
         IF st.stat = "oserror" THEN Outcome("raise", << >>) \* path.exists() raises
         ELSE IF st.stat = "nofile" THEN Outcome("none", << >>)
         ELSE IF st.stat = "badfile" THEN Outcome("none", << >>)  \* caught, logged
         ELSE IF st.bars < MinBars THEN Outcome("none", << >>)
         ELSE IF RowsAnalysed(st.bars) < MinRows THEN Outcome("none", << >>)
         ELSE IF ~IsMatch(flt, ps, st) THEN Outcome("none", << >>)
         ELSE Outcome("result", << MakeResult(item.Code, check_ma_conditions(ps, st), TRUE) >>)

\* analyze_symbol of the "ai" script: a caught exception becomes an error record.
\*   kind "failure" : return {"mode": "analysis_failure", ...}
analyze_symbol_ai(item, ps, flt) ==
    IF ~item.dict THEN Outcome("raise", << >>)
    ELSE LET st == PriceStore(item.Code) IN
         IF st.stat = "oserror" THEN Outcome("raise", << >>)
         ELSE IF st.stat = "nofile" THEN Outcome("none", << >>)
         ELSE IF st.stat = "badfile" THEN Outcome("failure", << >>)
         ELSE IF st.bars < MinBarsAi THEN Outcome("none", << >>)
         ELSE IF ~IsMatchAi(flt, ps, st) THEN Outcome("none", << >>)
         ELSE Outcome("result", << MakeResult(item.Code, check_ma_conditions_ai(ps, st), FALSE) >>)

\* ------------------------------------------------------------ ranking
\* list.sort(key=..., reverse=True) is stable: equal keys keep their order.
InsertDesc(sorted, x) ==
    LET n == Cardinality({ i \in DOMAIN sorted : SortKey(sorted[i]) >= SortKey(x) })
    IN  SubSeq(sorted, 1, n) \o << x >> \o SubSeq(sorted, n + 1, Len(sorted))

\* the results list left in accumulation order
SortSkipped(s) == s

RECURSIVE SortDesc(_)
SortDesc(s) ==
    IF s = << >> THEN << >>
    ELSE InsertDesc(SortDesc(SubSeq(s, 1, Len(s) - 1)), s[Len(s)])

\* results[:top_n] if top_n > 0 else results
Truncate(s, n) == IF n > 0 THEN SubSeq(s, 1, Min(n, Len(s))) ELSE s

\* r.pop('sort_score', None)
PopScore(r) == [ r EXCEPT !.sort_score = << >> ]

\* ------------------------------------------------------------ the cache
\* A string is modelled by its spelling: the sequence of its words and of the
\* separators "_" and ":" between them.
Spelling(str) ==
    CASE str = "ma_only"        -> << "ma", "_", "only" >>
      [] str = "all_below_ma"   -> << "all", "_", "below", "_", "ma" >>
      [] str = "double_bottom"  -> << "double", "_", "bottom" >>
      [] str = "triple_bottom"  -> << "triple", "_", "bottom" >>
      [] str = "cup_and_handle" -> << "cup", "_", "and", "_", "handle" >>
      [] str = "regime:0"       -> << "regime", ":", "0" >>
      [] str = "regime:1"       -> << "regime", ":", "1" >>
      [] str = "regime:2"       -> << "regime", ":", "2" >>
      [] str = "regime:3"       -> << "regime", ":", "3" >>
      [] str = "no_dart"        -> << "no", "_", "dart" >>
      [] OTHER                  -> << str >>

\* s.replace(':', '_')
ReplaceColon(toks) == [ i \in DOMAIN toks |-> IF toks[i] = ":" THEN "_" ELSE toks[i] ]

\* f"{a}_{b}"
Join(a, b) == a \o << "_" >> \o b

\* pattern_type_filter or 'ma_only'
FilterKey(flt) == Spelling(IF flt = NoneVal THEN "ma_only" ELSE flt)

DartTag(key) == Spelling(IF key # "" THEN "dart" ELSE "no_dart")

\* the file name built without the top_n suffix
CacheKeyNoTopN(day, flt, apiKey, n) ==
    << day, ReplaceColon(Join(FilterKey(flt), DartTag(apiKey))), 0 >>

\* cache_key = f"{today_str}_{cache_filter_key.replace(':', '_')}_{top_n}.json":
\* the eight-digit date in front and the decimal top_n at the end delimit
\* themselves; the middle part is the spelling of the filter key joined to
\* the DART tag.
CacheKey(day, flt, apiKey, n) ==
    << day, ReplaceColon(Join(FilterKey(flt), DartTag(apiKey))), n >>

\* --pattern_type choices, and no filter
AllFilters ==
    { NoneVal, "ma", "all_below_ma", "double_bottom", "triple_bottom", "cup_and_handle",
      "goldencross", "deadcross", "regime:0", "regime:1", "regime:2", "regime:3" }
ApiKeys == { "", "key" }

CacheKeys == { CacheKey(d, f, "", n) : d \in Days, f \in Filters, n \in TopNs }
AllCacheKeys == { CacheKey(d, f, k, n) : d \in Days, f \in AllFilters, k \in ApiKeys, n \in TopNs }

Absent       == [state |-> "absent",  text |-> << >>]
Corrupt      == [state |-> "corrupt", text |-> << >>]
Valid(text)  == [state |-> "valid",   text |-> << text >>]

\* cleanup_old_cache: entries older than the retention window are unlinked
cleanup_old_cache(c, day) ==
    [ k \in DOMAIN c |-> IF day - k[1] > RetentionDays THEN Absent ELSE c[k] ]

\* ------------------------------------------------------------ the patterns
\* df['Close'] is a sequence of closes (whole numbers of the price unit, all
\* positive); Python positions count from 0. Ratios against 0.05, 0.1, 0.5 and
\* 0.7 are compared exactly, by cross-multiplication.
Iloc(c, i)     == c[i + 1]                \* df['Close'].iloc[i]
Slice(c, a, b) == SubSeq(c, a + 1, b)     \* df['Close'].iloc[a:b]
Last(c)        == c[Len(c)]               \* df['Close'].iloc[-1]
Max(a, b)      == IF a > b THEN a ELSE b
MaxOf(c)       == CHOOSE x \in { c[i] : i \in DOMAIN c } : \A i \in DOMAIN c : c[i] <= x
Abs(x)         == IF x < 0 THEN -x ELSE x

\* [t for t in extrema if t >= len(df) - 250]
Recent(c, extrema) == SelectSeq(extrema, LAMBDA t : t >= Len(c) - RecentWindow)

\* the tuple (matched, neckline, status, price); None is << >>, a value v is << v >>
NoPattern == [matched |-> FALSE, neckline |-> << >>, status |-> << >>, price |-> << >>]
Pattern(matched, neckline, status) ==
    [matched |-> matched, neckline |-> << neckline >>, status |-> << status >>,
     price |-> << neckline >>]

\* every frame is answered with a 'None' verdict at the latest close
find_double_bottom_placeholder(c, troughs) == Pattern(FALSE, Last(c), "None")

\* "dart"
find_double_bottom(c, troughs) ==
    LET recent_troughs == Recent(c, troughs) IN
    IF Len(recent_troughs) < 2 THEN NoPattern
    ELSE
    LET idx2   == recent_troughs[Len(recent_troughs)]
        idx1   == recent_troughs[Len(recent_troughs) - 1]
        price1 == Iloc(c, idx1)
        price2 == Iloc(c, idx2)
    IN
    IF idx2 - idx1 < MinDuration THEN NoPattern
    ELSE
    LET min_price == Min(price1, price2)
        max_price == Max(price1, price2)
        is_price_matching == (max_price - min_price) * 100 < TolerancePct * min_price
    IN
    IF ~is_price_matching THEN NoPattern
    ELSE
    LET neckline == MaxOf(Slice(c, idx1, idx2)) IN
    IF (neckline - min_price) * 100 < MinRetracePct * min_price THEN NoPattern
    ELSE
    LET current_price == Last(c)
        is_potential ==
            /\ neckline > min_price
            /\ 2 * (current_price - min_price) > neckline - min_price
            /\ current_price < neckline
    IN
    IF current_price > neckline THEN Pattern(TRUE, neckline, "Breakout")
    ELSE IF is_potential THEN Pattern(FALSE, neckline, "Potential")
    ELSE Pattern(FALSE, neckline, "None")

\* "ai"
find_double_bottom_ai(c, troughs) ==
    IF Len(c) < MinLenDb THEN NoPattern
    ELSE
    LET recent_troughs == Recent(c, troughs) IN
    IF Len(recent_troughs) < 2 THEN NoPattern
    ELSE
    LET idx2 == recent_troughs[Len(recent_troughs)]
        idx1 == recent_troughs[Len(recent_troughs) - 1]
    IN
    IF idx2 - idx1 < MinDuration THEN NoPattern
    ELSE
    LET price1        == Iloc(c, idx1)
        price2        == Iloc(c, idx2)
        interim_high  == MaxOf(Slice(c, idx1, idx2))
        current_price == Last(c)
        min_price_ab  == Min(price1, price2)
        is_price_matching == Abs(price1 - price2) * 100 < TolerancePct * min_price_ab
        is_potential ==
            /\ interim_high > min_price_ab
            /\ 2 * (current_price - min_price_ab) > interim_high - min_price_ab
            /\ current_price < interim_high
    IN
    IF ~is_price_matching THEN NoPattern
    ELSE IF interim_high * 100 < (100 + MinRetracePct) * min_price_ab THEN NoPattern
    ELSE IF current_price > interim_high THEN Pattern(TRUE, interim_high, "Breakout")
    ELSE IF is_potential THEN Pattern(FALSE, interim_high, "Potential")
    ELSE NoPattern

\* "dart"
find_triple_bottom(c, troughs) ==
    LET recent_troughs == Recent(c, troughs) IN
    IF Len(recent_troughs) < 3 THEN NoPattern
    ELSE
    LET idx3   == recent_troughs[Len(recent_troughs)]
        idx2   == recent_troughs[Len(recent_troughs) - 1]
        idx1   == recent_troughs[Len(recent_troughs) - 2]
        price1 == Iloc(c, idx1)
        price2 == Iloc(c, idx2)
        price3 == Iloc(c, idx3)
    IN
    IF idx3 - idx1 < MinDurationTotal THEN NoPattern
    ELSE
    LET min_price == Min(price1, Min(price2, price3))
        max_price == Max(price1, Max(price2, price3))
        is_price_matching == (max_price - min_price) * 100 < TolerancePct * min_price
    IN
    IF ~is_price_matching THEN NoPattern
    ELSE
    LET high1    == MaxOf(Slice(c, idx1, idx2))
        high2    == MaxOf(Slice(c, idx2, idx3))
        neckline == Max(high1, high2)
    IN
    IF (neckline - min_price) * 100 < MinRetracePct * min_price THEN NoPattern
    ELSE
    LET current_price == Last(c)
        is_potential ==
            /\ neckline > min_price
            /\ 2 * (current_price - min_price) > neckline - min_price
            /\ current_price < neckline
    IN
    IF current_price > neckline THEN Pattern(TRUE, neckline, "Breakout")
    ELSE IF is_potential THEN Pattern(FALSE, neckline, "Potential")
    ELSE Pattern(FALSE, neckline, "None")

\* "ai"
find_triple_bottom_ai(c, troughs) ==
    IF Len(c) < MinLenTb THEN NoPattern
    ELSE
    LET recent_troughs == Recent(c, troughs) IN
    IF Len(recent_troughs) < 3 THEN NoPattern
    ELSE
    LET idx3 == recent_troughs[Len(recent_troughs)]
        idx2 == recent_troughs[Len(recent_troughs) - 1]
        idx1 == recent_troughs[Len(recent_troughs) - 2]
    IN
    IF idx3 - idx1 < MinDurationTotal THEN NoPattern
    ELSE
    LET price1 == Iloc(c, idx1)
        price2 == Iloc(c, idx2)
        price3 == Iloc(c, idx3)
        high1  == MaxOf(Slice(c, idx1, idx2))
        high2  == MaxOf(Slice(c, idx2, idx3))
        current_price == Last(c)
        min_price_abc == Min(price1, Min(price2, price3))
        max_price_abc == Max(price1, Max(price2, price3))
        is_price_matching == (max_price_abc - min_price_abc) * 100 < TolerancePct * min_price_abc
        neckline == Max(high1, high2)
        is_potential ==
            /\ neckline > min_price_abc
            /\ 2 * (current_price - min_price_abc) > neckline - min_price_abc
            /\ current_price < neckline
    IN
    IF ~is_price_matching THEN NoPattern
    ELSE IF neckline * 100 < (100 + MinRetracePct) * min_price_abc THEN NoPattern
    ELSE IF current_price > neckline THEN Pattern(TRUE, neckline, "Breakout")
    ELSE IF is_potential THEN Pattern(FALSE, neckline, "Potential")
    ELSE NoPattern

\* is_handle_forming of both variants
HandleForming(c, peak_right_idx) ==
    LET peak_right_price == Iloc(c, peak_right_idx) IN
    /\ MaxOf(Slice(c, peak_right_idx, Len(c))) <= peak_right_price
    /\ Last(c) * 100 > peak_right_price * (100 - HandleDropPct)

\* "dart"
find_cup_and_handle(c, peaks) ==
    LET recent_peaks == Recent(c, peaks) IN
    IF Len(recent_peaks) < 2 THEN NoPattern
    ELSE
    LET peak_right_idx    == recent_peaks[Len(recent_peaks)]
        neckline          == Iloc(c, peak_right_idx)
        current_price     == Last(c)
        is_handle_forming == HandleForming(c, peak_right_idx)
    IN
    IF is_handle_forming /\ current_price > neckline THEN Pattern(TRUE, neckline, "Breakout")
    ELSE IF is_handle_forming /\ current_price <= neckline THEN Pattern(FALSE, neckline, "Potential")
    ELSE Pattern(FALSE, neckline, "None")

\* "ai"
find_cup_and_handle_ai(c, peaks) ==
    IF Len(c) < MinLenCh THEN NoPattern
    ELSE
    LET recent_peaks == Recent(c, peaks) IN
    IF Len(recent_peaks) < 1 THEN NoPattern
    ELSE
    LET peak_right_idx    == recent_peaks[Len(recent_peaks)]
        peak_right_price  == Iloc(c, peak_right_idx)
        current_price     == Last(c)
        is_handle_forming == HandleForming(c, peak_right_idx)
    IN
    IF is_handle_forming /\ current_price > peak_right_price
    THEN Pattern(TRUE, peak_right_price, "Breakout")
    ELSE IF is_handle_forming /\ current_price <= peak_right_price
    THEN Pattern(FALSE, peak_right_price, "Potential")
    ELSE NoPattern

\* ---------------------------------------------------------- data refresh
MAX_RETRIES == 3

\* how one attempt of the download loop may end: rows were read and written,
\* rows were read and to_parquet raised, the reader returned an empty frame,
\* it raised requests.exceptions.RequestException, it raised something else
AttemptOutcomes == {"rows", "write_error", "empty", "request_error", "other_error"}

\* the variant that goes on to the next attempt after any exception
RetriesAfterAnyError(o, attempt) ==
    o \in {"request_error", "other_error", "write_error"} /\ attempt < MAX_RETRIES - 1

\* except requests.exceptions.RequestException: if attempt < MAX_RETRIES - 1: sleep
Retries(o, attempt) == o = "request_error" /\ attempt < MAX_RETRIES - 1

\* the (message, type) pair an attempt that does not retry returns
AttemptReturn(o, update_type) ==
    CASE o = "rows"  -> << "saved " \o update_type, "success" >>
      [] o = "empty" -> << "no data", "no_data" >>
      [] OTHER       -> << "failed: " \o o, "failed" >>

\* the parquet file after an attempt
FileAfter(o, file) ==
    CASE o = "rows"        -> {"fresh"}
      [] o = "write_error" -> {file, "unreadable"}
      [] OTHER             -> {file}

\* ------------------------------------------------------ feature derivation
\* Closes are kept by position (1 is the oldest bar). An indicator value is
\* kept exact where whole numbers allow it (sums, numerators and
\* denominators); the exponentially weighted ones are kept as the values the
\* recursion has accumulated, oldest first.
\* the sum of s[lo .. hi], by halves
RECURSIVE RangeSum(_, _, _)
RangeSum(s, lo, hi) ==
    IF lo > hi THEN 0
    ELSE IF lo = hi THEN s[lo]
    ELSE RangeSum(s, lo, (lo + hi) \div 2) + RangeSum(s, (lo + hi) \div 2 + 1, hi)

SumSeq(s) == RangeSum(s, 1, Len(s))

Indices(s) == [ i \in 1 .. Len(s) |-> i ]

RsiWindow    == 14
MacdSlow     == 26
BbWindow     == 20
Sma20Window  == 20
Sma50Window  == 50

\* rolling(window).sum() at position i
RollingSum(c, w, i) == RangeSum(c, i - w + 1, i)

\* SMAIndicator(window).sma_indicator() at position i: << sum, window >>
SMA(c, w, i) == << RollingSum(c, w, i), w >>

\* ewm(adjust=False).mean() at position i: e(i) = a*x(i) + (1-a)*e(i-1),
\* e(1) = x(1): the values x(1) .. x(i) it has accumulated
ewm(c, i) == SubSeq(c, 1, i)

\* RSIIndicator(window=14).rsi(), MACD().macd(), macd_signal(), macd_diff()
RSI(c, i)         == [ind |-> "rsi", acc |-> ewm(c, i)]
MACD(c, i)        == [ind |-> "macd", acc |-> ewm(c, i)]
MACD_Signal(c, i) == [ind |-> "macd_signal", acc |-> MACD(c, i).acc]
MACD_Hist(c, i)   == [ind |-> "macd_diff", acc |-> MACD_Signal(c, i).acc]

\* BollingerBands(window=20, window_dev=2).bollinger_wband(): 4*std/mean of
\* the window, kept as << n*sum(x^2) - sum(x)^2, sum(x) >>
BB_Width(c, i) ==
    LET win == SubSeq(c, i - BbWindow + 1, i)
    IN  << BbWindow * SumSeq([ j \in DOMAIN win |-> win[j] * win[j] ])
             - SumSeq(win) * SumSeq(win),
           SumSeq(win) >>

\* np.log(df['Close'] / df['Close'].shift(-1)): the variant that reads the next bar
Log_Return_lead(c, i) == IF i < Len(c) THEN << c[i], c[i + 1] >> ELSE << 0, 0 >>

\* np.log(df['Close'] / df['Close'].shift(1)) at position i
Log_Return(c, i) == << c[i], c[i - 1] >>

\* (df['SMA_50'] > df['SMA_200']).astype(int)
TREND_CROSS(c, i) ==
    IF RollingSum(c, Sma50Window, i) * SmaWindow > RollingSum(c, SmaWindow, i) * Sma50Window
    THEN 1 ELSE 0

\* the row of position i
FeatureRow(c, i) ==
    [ idx         |-> i,
      RSI         |-> RSI(c, i),
      MACD        |-> MACD(c, i),
      MACD_Signal |-> MACD_Signal(c, i),
      MACD_Hist   |-> MACD_Hist(c, i),
      BB_Width    |-> BB_Width(c, i),
      SMA_20      |-> SMA(c, Sma20Window, i),
      SMA_50      |-> SMA(c, Sma50Window, i),
      SMA_200     |-> SMA(c, SmaWindow, i),
      Log_Return  |-> Log_Return(c, i),
      TREND_CROSS |-> TREND_CROSS(c, i) ]

\* a value of the row is NaN: the window of the indicator is not filled, or
\* the return has no bar to read
HasNaN(c, i) ==
    \/ i < Max(Max(RsiWindow, MacdSlow), Max(BbWindow, SmaWindow))
    \/ i < 2
    \/ Log_Return(c, i) = << 0, 0 >>

\* calculate_advanced_features: the rows without NaN in the feature subset,
\* oldest first
calculate_advanced_features(c) ==
    LET Kept(i) == ~HasNaN(c, i)
        kept    == SelectSeq(Indices(c), Kept)
    IN  [ k \in DOMAIN kept |-> FeatureRow(c, kept[k]) ]

\* ------------------------------------------------------ regime clustering
\* A feature frame is held by its distinct feature vectors: pts[i] is a
\* vector (one number stands for the five features), cnt[i] the number of rows
\* that carry it; nonfinite tells that one more row has an infinite Log_Return
\* (a Close of 0 gives log(0) = -inf, which dropna keeps); cols that the
\* feature columns are all present.
n_clusters          == 4
min_data_length     == 200
min_data_length_ai  == 50
random_state        == 42
n_init              == 10
max_iter            == 300
RngModulus          == 64
InertiaUnit         == 16

\* len(df_full)
FrameLen(df) == SumSeq(df.cnt) + (IF df.nonfinite THEN 1 ELSE 0)

\* data.drop_duplicates().shape[0]
DistinctRows(df) == Len(df.pts) + (IF df.nonfinite THEN 1 ELSE 0)

\* StandardScaler().fit_transform(data): the input is validated (an infinite
\* value is rejected with ValueError), then every value is centred on the
\* column mean and divided by the column deviation. The centred value is kept
\* as n*x - sum(x), the same for every row up to the positive factor
\* 1/(n*std).
fit_transform(df) ==
    IF df.nonfinite THEN [kind |-> "raise", X |-> << >>]
    ELSE [kind |-> "ok",
          X |-> [ i \in DOMAIN df.pts |->
                    SumSeq(df.cnt) * df.pts[i]
                      - SumSeq([ j \in DOMAIN df.pts |-> df.cnt[j] * df.pts[j] ]) ]]

\* numpy's generator: the next state of a generator state
rng_next(s) == (5 * s + 3) % RngModulus

\* the generator of the variant that ignores the seed (np.random's global one)
global_random_state(seed, np_random) == np_random

\* check_random_state(random_state): an integer seed gives a generator of its
\* own, started from the seed whatever np.random's global generator holds
check_random_state(seed, np_random) == seed % RngModulus

\* init='k-means++': the centres are drawn one after the other among the
\* points that are not yet a centre (a point at distance 0 of a centre has
\* weight 0); when none is left any point is drawn
RECURSIVE kmeans_plusplus(_, _, _, _)
kmeans_plusplus(X, chosen, s, k) ==
    IF Len(chosen) = k THEN [centers |-> chosen, rng |-> s]
    ELSE LET Free(i) == \A j \in DOMAIN chosen : X[i] # X[chosen[j]]
             free    == SelectSeq(Indices(X), Free)
             cand    == IF free = << >> THEN Indices(X) ELSE free
         IN  kmeans_plusplus(X, Append(chosen, cand[(s % Len(cand)) + 1]), rng_next(s), k)

\* a centre is kept as << sum, weight >> of its members; x is nearer to
\* centre a than to centre b
Nearer(x, a, b) == Abs(x * a[2] - a[1]) * b[2] < Abs(x * b[2] - b[1]) * a[2]

\* the label of x: the first nearest centre (argmin), numbered from 0
LabelOf(x, C) ==
    (CHOOSE j \in DOMAIN C :
        /\ \A l \in DOMAIN C : ~Nearer(x, C[l], C[j])
        /\ \A l \in DOMAIN C : l < j => Nearer(x, C[j], C[l])) - 1

\* one Lloyd step: every centre becomes the mean of the rows labelled with it
\* (a centre without rows stays)
LloydStep(X, cnt, C) ==
    [ j \in DOMAIN C |->
        LET w == SumSeq([ i \in DOMAIN X |-> IF LabelOf(X[i], C) = j - 1 THEN cnt[i] ELSE 0 ])
            t == SumSeq([ i \in DOMAIN X |-> IF LabelOf(X[i], C) = j - 1 THEN cnt[i] * X[i] ELSE 0 ])
        IN  IF w = 0 THEN C[j] ELSE << t, w >> ]

RECURSIVE Lloyd(_, _, _, _)
Lloyd(X, cnt, C, it) ==
    LET D == LloydStep(X, cnt, C)
    IN  IF D = C \/ it = 0 THEN C ELSE Lloyd(X, cnt, D, it - 1)

\* inertia_: the squared distances of the rows to their centres, in whole
\* multiples of InertiaUnit
Inertia(X, cnt, C) ==
    SumSeq([ i \in DOMAIN X |->
        LET c == C[LabelOf(X[i], C) + 1]
            q == Abs(X[i] * c[2] - c[1]) \div (c[2] * InertiaUnit)
        IN  cnt[i] * q * q ])

\* the n_init runs: each draws its centres from the generator, the run of
\* lowest inertia is kept (the first one among equals)
RECURSIVE BestRun(_, _, _, _, _, _)
BestRun(X, cnt, k, s, left, best) ==
    IF left = 0 THEN best
    ELSE LET init == kmeans_plusplus(X, << >>, s, k)
             C    == Lloyd(X, cnt, [ j \in 1 .. k |-> << X[init.centers[j]], 1 >> ], max_iter)
         IN  IF best = << >> \/ Inertia(X, cnt, C) < Inertia(X, cnt, best[1])
             THEN BestRun(X, cnt, k, init.rng, left - 1, << C >>)
             ELSE BestRun(X, cnt, k, init.rng, left - 1, best)

\* KMeans(n_clusters, random_state, n_init, init='k-means++').fit_predict(X):
\* the label of every distinct vector
fit_predict(X, cnt, k, seed, np_random) ==
    LET C == BestRun(X, cnt, k, check_random_state(seed, np_random), n_init, << >>)[1]
    IN  [ i \in DOMAIN X |-> LabelOf(X[i], C) ]

\* df['MarketRegime'] = -1
Undetermined(df) == [kind |-> "labels", labels |-> [ i \in DOMAIN df.pts |-> -1 ]]

\* add_market_regime_clustering of the scripts with the DART disclosure: the
\* scaler is called before the try block, which catches the ValueError of
\* KMeans only
add_market_regime_clustering(df, k, np_random) ==
    IF FrameLen(df) < min_data_length \/ ~df.cols THEN Undetermined(df)
    ELSE IF DistinctRows(df) < k THEN Undetermined(df)
    ELSE LET scaled == fit_transform(df)
         IN  IF scaled.kind = "raise" THEN [kind |-> "raise", labels |-> << >>]
             ELSE [kind |-> "labels",
                   labels |-> fit_predict(scaled.X, df.cnt, k, random_state, np_random)]

\* add_market_regime_clustering of athena_k_market_ai.py: 50 rows are enough,
\* the distinct vectors are not counted and nothing is caught
add_market_regime_clustering_ai(df, k, np_random) ==
    IF FrameLen(df) < min_data_length_ai \/ ~df.cols THEN Undetermined(df)
    ELSE IF df.pts = << >> THEN Undetermined(df)
    ELSE LET scaled == fit_transform(df)
         IN  IF scaled.kind = "raise" THEN [kind |-> "raise", labels |-> << >>]
             ELSE [kind |-> "labels",
                   labels |-> fit_predict(scaled.X, df.cnt, k, random_state, np_random)]

\* ------------------------------------------------------------------ state
VARIABLES
    script,              \* which script variant runs: "dart" or "ai"
    workers,             \* --workers
    listing_file,        \* stock_listing.json: [exists, items]
    today,               \* datetime.now() as a day number
    cache,               \* CACHE_DIR: cache key -> entry
    run,                 \* "first" or "second" invocation of the script
    prev,                \* what the first invocation did (for comparison)
    pc,                  \* position of the main thread in run_analysis
    pattern_type_filter, top_n, symbol_filter, dart_api_key,   \* arguments
    periods,             \* the moving-average windows of the run (50 and 200 added)
    items,               \* the instruments to analyse
    initial_item_count,  \* denominator of the progress events
    tasks,               \* per submitted future: "pending", "running", "done"
    doneq,               \* futures in completion order (as_completed)
    processed_count,
    results,             \* the accumulator
    errored_symbols,     \* error records ("ai")
    final_output,        \* the BatchResult dict, << >> until built
    out,                 \* lines written to stdout by this invocation
    exit_code,           \* -1 while running
    cache_read,          \* "no", or how reading the cache entry ended: "hit", "unreadable"
    persist,             \* outcome of this invocation's cache write, "none" if none
    writer,              \* a concurrent run with the same cache key: "idle", "opened", "closed"
    pattern_scan,        \* one price frame under pattern analysis: closes, extrema, statuses
    regime_call,         \* one feature frame given to add_market_regime_clustering
    feature_call,        \* two price series given to calculate_advanced_features
    fetch_call,          \* one call of fetch_and_save_data of the data-refresh script
    refresh              \* one call of download_and_save_stocks of the data-refresh script

unit_vars == << regime_call, feature_call, fetch_call, refresh >>
env_vars  == << script, unit_vars, workers, writer, pattern_scan, listing_file, today, cache, run, prev >>
arg_vars  == << pattern_type_filter, top_n, symbol_filter, dart_api_key, periods >>
pool_vars == << tasks, doneq >>
acc_vars  == << processed_count, results, errored_symbols >>
vars == << script, unit_vars, workers, writer, pattern_scan, listing_file, today, cache, run, prev, pc,
           pattern_type_filter, top_n, symbol_filter, dart_api_key, periods,
           items, initial_item_count, tasks, doneq, processed_count,
           results, errored_symbols, final_output, out, exit_code,
           cache_read, persist >>

DefaultItem == << Rec("005930") >>

\* no frame under pattern analysis
NoFrame == [pts |-> << >>, cnt |-> << >>, nonfinite |-> FALSE, cols |-> FALSE]
NoCall  == [df |-> NoFrame, calls |-> << >>]
NoFeatures == [series |-> << >>, frames |-> << >>]
NoFetch == [file |-> "absent", force |-> FALSE, pc |-> "idle", update_type |-> "",
            attempt |-> 0, trace |-> << >>, ret |-> << >>]
NoRefresh == [limit |-> FALSE, max_workers |-> 0, fate |-> << >>, futures |-> << >>,
              yielded |-> {}, pc |-> "idle", completed_count |-> 0, success_count |-> 0,
              failed_count |-> 0]
UnitIdle ==
    /\ regime_call = NoCall /\ feature_call = NoFeatures /\ fetch_call = NoFetch
    /\ refresh = NoRefresh

\* the variables of a run of the analysis script
program_vars == << script, workers, writer, pattern_scan, listing_file, today, cache, run,
                   prev, pc, pattern_type_filter, top_n, symbol_filter, dart_api_key,
                   periods, items, initial_item_count, tasks, doneq, processed_count,
                   results, errored_symbols, final_output, out, exit_code, cache_read,
                   persist >>

NoScan == [Close |-> << >>, troughs |-> << >>, peaks |-> << >>, db |-> << >>, tb |-> << >>,
           ch |-> << >>]

\* load_listing(): the default instrument when the file is missing or unreadable
load_listing == IF listing_file.exists THEN listing_file.items ELSE DefaultItem

cache_key == CacheKey(today, pattern_type_filter, dart_api_key, top_n)

NoPrev == [ran |-> FALSE, day |-> 0, filter |-> NoneVal, top_n |-> 0, periods |-> {},
           whole |-> FALSE,
           terminal |-> << >>, persist |-> "none"]

ProgressEvent(total, processed) ==
    [mode |-> "progress", total_symbols |-> total, processed_symbols |-> processed]
ErrorObject(name) == [error |-> name]

\* The root logger. "ai": setup_env installs StreamHandler(sys.stdout) at level
\* WARNING. "dart": setup_env calls load_dart_corp_map() first, which always
\* logs; that first logging call configures the root logger with a stderr
\* handler, and the later basicConfig(handlers=[... sys.stdout]) does nothing.
LogToStdout == script = "ai"

\* one record formatted by the logging handler, as a line of stdout
LogLine(level) == [log |-> level]

\* stdout after the logging calls `lines` of a step
Logged(o, lines) == IF LogToStdout THEN o \o lines ELSE o

\* json.dumps(..., indent=2) of the "ai" safe_print_json: the document is
\* spread over several lines
Indented(doc) == doc @@ [indent |-> 2]

IsProgress(line) == "processed_symbols" \in DOMAIN line
IsError(line)    == "error" \in DOMAIN line
IsBatchResult(line) == "results" \in DOMAIN line

FreshRun ==
    /\ pc = "start"
    /\ items = << >> /\ initial_item_count = 0
    /\ tasks = << >> /\ doneq = << >>
    /\ processed_count = 0 /\ results = << >> /\ errored_symbols = << >>
    /\ final_output = << >> /\ out = << >> /\ exit_code = -1
    /\ cache_read = "no" /\ persist = "none"
    /\ pattern_type_filter = NoneVal /\ top_n = 0 /\ symbol_filter = NoneVal
    /\ dart_api_key = "" /\ periods = {}

\* --ma_periods default "20,50,200"
DefaultPeriods == {20, 50, 200}

\* ------------------------------------------------------------ main thread
\* main() parses the arguments and enters run_analysis: cleanup_old_cache(),
\* then the cache key is computed from today's date and the arguments.
StartRunWith(F, S, K, M) ==
    /\ pc = "start" /\ script = "dart"
    /\ \E f \in F, n \in TopNs, s \in S, k \in K, m \in M :
          /\ pattern_type_filter' = f
          /\ top_n' = n
          /\ symbol_filter' = s
          /\ dart_api_key' = k
          /\ periods' = m \cup {50, 200}
    /\ cache' = cleanup_old_cache(cache, today)
    /\ pc' = "cachecheck"
    /\ UNCHANGED << script, unit_vars, workers, writer, pattern_scan, listing_file, today, run, prev,
                    items, initial_item_count, pool_vars, acc_vars,
                    final_output, out, exit_code, cache_read, persist >>

StartRun == StartRunWith(Filters, Symbols, {""}, {DefaultPeriods})

\* a whole-universe run with one of the moving-average filters, or none
MaFilters == { NoneVal, "ma", "all_below_ma" }
\* requests for the windows 20,50,200 (default), 5 and 5,20
PeriodChoices == { DefaultPeriods, {5}, {5, 20} }
StartRunMa == StartRunWith(MaFilters, {NoneVal}, {""}, PeriodChoices)

\* a whole-universe run without filter, with any of the window requests
StartRunPeriods == StartRunWith({NoneVal}, {NoneVal}, {""}, PeriodChoices)

\* a whole-universe run with any --pattern_type choice and DART key
StartRunAny == StartRunWith(AllFilters, {NoneVal}, ApiKeys, {DefaultPeriods})

\* the "ai" script has no cache, no top_n and no --symbol for analyze mode
StartRunAi ==
    /\ pc = "start" /\ script = "ai"
    /\ \E f \in Filters : pattern_type_filter' = f
    /\ periods' = DefaultPeriods \cup {50, 200}
    /\ pc' = "load"
    /\ UNCHANGED << env_vars, top_n, symbol_filter, dart_api_key,
                    items, initial_item_count, pool_vars, acc_vars,
                    final_output, out, exit_code, cache_read, persist >>

\* the cached document is printed but the process does not exit
CacheCheckNoExit ==
    /\ pc = "cachecheck"
    /\ IF symbol_filter = NoneVal /\ cache[cache_key].state = "valid"
       THEN /\ cache_read' = "hit"
            /\ out' = Append(out, JsonDumps(JsonLoad(cache[cache_key].text[1])))
       ELSE /\ cache_read' = IF symbol_filter = NoneVal /\ cache[cache_key].state = "corrupt"
                             THEN "unreadable" ELSE cache_read
            /\ out' = out
    /\ pc' = "load"
    /\ UNCHANGED << env_vars, arg_vars, items, initial_item_count, pool_vars,
                    acc_vars, final_output, exit_code, persist >>

\* the cache is consulted for single-ticker runs instead of whole-universe runs
CacheCheckInverted ==
    /\ pc = "cachecheck"
    /\ IF symbol_filter # NoneVal /\ cache[cache_key].state # "absent"
       THEN IF cache[cache_key].state = "valid"
            THEN /\ cache_read' = "hit"
                 /\ out' = Append(out, JsonDumps(JsonLoad(cache[cache_key].text[1])))
                 /\ exit_code' = 0
                 /\ pc' = "done"
            ELSE /\ cache_read' = "unreadable"
                 /\ pc' = "load"
                 /\ UNCHANGED << out, exit_code >>
       ELSE /\ pc' = "load"
            /\ UNCHANGED << out, exit_code, cache_read >>
    /\ UNCHANGED << env_vars, arg_vars, items, initial_item_count, pool_vars,
                    acc_vars, final_output, persist >>

\* if not symbol_filter and cache_path.exists(): try json.load, print, exit(0)
CacheCheck ==
    /\ pc = "cachecheck"
    /\ IF symbol_filter = NoneVal /\ cache[cache_key].state # "absent"
       THEN IF cache[cache_key].state = "valid"
            THEN /\ cache_read' = "hit"
                 /\ out' = Append(out, JsonDumps(JsonLoad(cache[cache_key].text[1])))
                 /\ exit_code' = 0
                 /\ pc' = "done"
            ELSE /\ cache_read' = "unreadable"  \* logged, falls through to the analysis
                 /\ pc' = "load"
                 /\ UNCHANGED << out, exit_code >>
       ELSE /\ pc' = "load"
            /\ UNCHANGED << out, exit_code, cache_read >>
    /\ UNCHANGED << env_vars, arg_vars, items, initial_item_count, pool_vars,
                    acc_vars, final_output, persist >>

\* the listing is handed to the pool without the two emptiness checks
LoadListingUnchecked ==
    /\ pc = "load" /\ script = "dart"
    /\ LET all == load_listing
           sel == IF symbol_filter = NoneVal THEN all
                  ELSE SelectSeq(all, LAMBDA it : it.dict /\ it.Code = symbol_filter)
       IN  IF symbol_filter # NoneVal /\ \E i \in DOMAIN all : ~all[i].dict
           THEN /\ out' = Append(out, ErrorObject("CRITICAL_RUNTIME_ERROR"))
                /\ exit_code' = 1 /\ pc' = "done"
                /\ UNCHANGED << items, initial_item_count >>
           ELSE /\ items' = sel
                /\ initial_item_count' = Len(sel)
                /\ pc' = "dispatch"
                /\ UNCHANGED << out, exit_code >>
    /\ UNCHANGED << env_vars, arg_vars, pool_vars, acc_vars, final_output,
                    cache_read, persist >>

\* items = load_listing(); the --symbol comprehension; the two emptiness checks
LoadListing ==
    /\ pc = "load" /\ script = "dart"
    /\ LET all == load_listing
           sel == IF symbol_filter = NoneVal THEN all
                  ELSE SelectSeq(all, LAMBDA it : it.dict /\ it.Code = symbol_filter)
       IN  IF symbol_filter # NoneVal /\ \E i \in DOMAIN all : ~all[i].dict
           THEN \* item.get raises in the comprehension; main() reports it
                /\ out' = Append(out, ErrorObject("CRITICAL_RUNTIME_ERROR"))
                /\ exit_code' = 1 /\ pc' = "done"
                /\ UNCHANGED << items, initial_item_count >>
           ELSE IF sel = << >>
           THEN /\ out' = Append(out, ErrorObject(IF symbol_filter = NoneVal
                                                  THEN "LISTING_DATA_EMPTY"
                                                  ELSE "SYMBOL_NOT_FOUND"))
                /\ exit_code' = 1 /\ pc' = "done"
                /\ UNCHANGED << items, initial_item_count >>
           ELSE /\ items' = sel
                /\ initial_item_count' = Len(sel)
                /\ pc' = "dispatch"
                /\ UNCHANGED << out, exit_code >>
    /\ UNCHANGED << env_vars, arg_vars, pool_vars, acc_vars, final_output,
                    cache_read, persist >>

\* "ai": initial_item_count = len(items); items = items[:10]
LoadListingAi ==
    /\ pc = "load" /\ script = "ai"
    /\ initial_item_count' = Len(load_listing)
    /\ items' = SubSeq(load_listing, 1, Min(TestLimit, Len(load_listing)))
    /\ out' = Logged(out, (IF listing_file.exists THEN << >> ELSE << LogLine("ERROR") >>)
                             \o << LogLine("WARNING") >>)
    /\ pc' = "dispatch"
    /\ UNCHANGED << env_vars, arg_vars, pool_vars, acc_vars, final_output,
                    exit_code, cache_read, persist >>

\* where the main thread goes once the as_completed loop is exhausted
AfterLoop == IF script = "dart" THEN "ranking" ELSE "summarise"

\* the dict comprehension of executor.submit(...) calls
Dispatch ==
    /\ pc = "dispatch"
    /\ tasks' = [ i \in DOMAIN items |-> "pending" ]
    /\ pc' = IF items = << >> THEN AfterLoop ELSE "collecting"
    /\ UNCHANGED << env_vars, arg_vars, items, initial_item_count, doneq, acc_vars,
                    final_output, out, exit_code, cache_read, persist >>

\* ------------------------------------------------------------ worker pool
Running == { i \in DOMAIN tasks : tasks[i] = "running" }

\* a thread is started for every queued work item, whatever max_workers is
StartTaskUnbounded(i) ==
    /\ pc \in {"collecting", "unwinding"}
    /\ tasks[i] = "pending"
    /\ \A j \in DOMAIN tasks : j < i => tasks[j] # "pending"
    /\ tasks' = [tasks EXCEPT ![i] = "running"]
    /\ UNCHANGED << env_vars, arg_vars, pc, items, initial_item_count, doneq,
                    acc_vars, final_output, out, exit_code, cache_read, persist >>

\* ThreadPoolExecutor: an idle worker takes the oldest queued work item
StartTask(i) ==
    /\ pc \in {"collecting", "unwinding"}
    /\ tasks[i] = "pending"
    /\ \A j \in DOMAIN tasks : j < i => tasks[j] # "pending"
    /\ Cardinality(Running) < workers
    /\ tasks' = [tasks EXCEPT ![i] = "running"]
    /\ UNCHANGED << env_vars, arg_vars, pc, items, initial_item_count, doneq,
                    acc_vars, final_output, out, exit_code, cache_read, persist >>

\* analyze_symbol returns or raises; the future becomes visible to as_completed
FinishTask(i) ==
    /\ pc \in {"collecting", "unwinding"}
    /\ tasks[i] = "running"
    /\ tasks' = [tasks EXCEPT ![i] = "done"]
    /\ doneq' = Append(doneq, i)
    /\ out' = IF script = "ai" /\ analyze_symbol_ai(items[i], periods, pattern_type_filter).kind = "failure"
              THEN Logged(out, << LogLine("ERROR") >>)      \* logging.error(error_msg)
              ELSE out
    /\ UNCHANGED << env_vars, arg_vars, pc, items, initial_item_count,
                    acc_vars, final_output, exit_code, cache_read, persist >>

\* a lost update: the accumulator is rebuilt from the latest result only
AccumulateOverwrite(acc, o) == IF o.kind = "result" THEN << o.val[1] >> ELSE acc

\* r = future.result(); if r: results.append(r)
Accumulate(acc, o) == IF o.kind = "result" THEN Append(acc, o.val[1]) ELSE acc

\* One iteration of `for future in as_completed(future_to_item)` ("dart"):
\* count, print the progress line, then future.result() in try/except.
\* The except handler calls future_to_item[future].get(...), which raises
\* again when the listing record is not a dict.
Collect ==
    /\ pc = "collecting" /\ script = "dart"
    /\ processed_count < Len(doneq)
    /\ LET i == doneq[processed_count + 1]
           o == analyze_symbol(items[i], periods, pattern_type_filter)
           handlerRaises == o.kind = "raise" /\ ~items[i].dict
       IN  /\ processed_count' = processed_count + 1
           /\ out' = Append(out, ProgressEvent(initial_item_count, processed_count + 1))
           /\ results' = Accumulate(results, o)
           /\ pc' = IF handlerRaises THEN "unwinding"
                    ELSE IF processed_count + 1 = Len(tasks) THEN AfterLoop
                    ELSE "collecting"
    /\ UNCHANGED << env_vars, arg_vars, items, initial_item_count, pool_vars,
                    errored_symbols, final_output, exit_code, cache_read, persist >>

\* The same loop in the "ai" script: analysis_failure records and thread
\* exceptions are appended to errored_symbols.
CollectAi ==
    /\ pc = "collecting" /\ script = "ai"
    /\ processed_count < Len(doneq)
    /\ LET i == doneq[processed_count + 1]
           o == analyze_symbol_ai(items[i], periods, pattern_type_filter)
           handlerRaises == o.kind = "raise" /\ ~items[i].dict
       IN  /\ processed_count' = processed_count + 1
           /\ out' = Logged(Append(out, ProgressEvent(initial_item_count, processed_count + 1)),
                            IF o.kind = "raise" /\ ~handlerRaises
                            THEN << LogLine("ERROR") >> ELSE << >>)
           /\ results' = Accumulate(results, o)
           /\ errored_symbols' =
                 IF o.kind = "failure"
                 THEN Append(errored_symbols, [ticker |-> items[i].Code, mode |-> "analysis_failure"])
                 ELSE IF o.kind = "raise" /\ ~handlerRaises
                 THEN Append(errored_symbols, [ticker |-> items[i].Code, mode |-> "thread_exception"])
                 ELSE errored_symbols
           /\ pc' = IF handlerRaises THEN "unwinding"
                    ELSE IF processed_count + 1 = Len(tasks) THEN AfterLoop
                    ELSE "collecting"
    /\ UNCHANGED << env_vars, arg_vars, items, initial_item_count, pool_vars,
                    final_output, exit_code, cache_read, persist >>

\* The exception leaves the loop: the executor's __exit__ waits for every
\* submitted task, then main()'s except prints the critical error and exits 1.
Unwind ==
    /\ pc = "unwinding"
    /\ \A i \in DOMAIN tasks : tasks[i] = "done"
    /\ out' = Append(out, IF script = "dart" THEN ErrorObject("CRITICAL_RUNTIME_ERROR")
                          ELSE Indented(ErrorObject("CRITICAL_ERROR")))
    /\ exit_code' = 1
    /\ pc' = "done"
    /\ UNCHANGED << env_vars, arg_vars, items, initial_item_count, pool_vars,
                    acc_vars, final_output, cache_read, persist >>

\* ranking followed directly by the final print: the cache write is not
\* reached before the BatchResult is emitted
RankThenEmit ==
    /\ pc = "ranking"
    /\ LET sorted == SortDesc(results)
           final  == Truncate(sorted, top_n)
       IN  /\ results' = [ i \in DOMAIN sorted |->
                             IF i <= Len(final) THEN PopScore(sorted[i]) ELSE sorted[i] ]
           /\ final_output' =
                 << [ results |-> [ i \in DOMAIN final |-> PopScore(final[i]) ],
                      mode |-> "analyze_result",
                      filter |-> IF pattern_type_filter = NoneVal THEN "ma_only"
                                 ELSE pattern_type_filter,
                      data_check |-> [ symbols_processed |-> initial_item_count,
                                       symbols_filtered  |-> Len(results),
                                       symbols_returned  |-> Len(final) ] ] >>
    /\ pc' = "emitting"
    /\ UNCHANGED << env_vars, arg_vars, items, initial_item_count, pool_vars,
                    processed_count, errored_symbols, out, exit_code, cache_read,
                    persist >>

\* results.sort(...); final_results = results[:top_n] ...; pop sort_score;
\* data_check and final_output are built.
Rank ==
    /\ pc = "ranking"
    /\ LET sorted == SortDesc(results)
           final  == Truncate(sorted, top_n)
       IN  /\ results' = [ i \in DOMAIN sorted |->
                             IF i <= Len(final) THEN PopScore(sorted[i]) ELSE sorted[i] ]
           /\ final_output' =
                 << [ results |-> [ i \in DOMAIN final |-> PopScore(final[i]) ],
                      mode |-> "analyze_result",
                      filter |-> IF pattern_type_filter = NoneVal THEN "ma_only"
                                 ELSE pattern_type_filter,
                      data_check |-> [ symbols_processed |-> initial_item_count,
                                       symbols_filtered  |-> Len(results),
                                       symbols_returned  |-> Len(final) ] ] >>
    /\ pc' = IF symbol_filter = NoneVal THEN "persisting" ELSE "emitting"
    /\ UNCHANGED << env_vars, arg_vars, items, initial_item_count, pool_vars,
                    processed_count, errored_symbols, out, exit_code, cache_read,
                    persist >>

\* "ai": no ranking; data_check carries the failure count
Summarise ==
    /\ pc = "summarise"
    /\ final_output' =
          << [ results |-> results,
               errored_symbols |-> errored_symbols,
               mode |-> "analyze_result",
               filter |-> IF pattern_type_filter = NoneVal THEN "ma_only"
                          ELSE pattern_type_filter,
               data_check |-> [ total_symbols_loaded |-> initial_item_count,
                                symbols_processed_ok |-> Len(results),
                                symbols_failed       |-> Len(errored_symbols) ] ] >>
    /\ out' = Logged(out, << LogLine("WARNING") >>)
    /\ pc' = "emitting"
    /\ UNCHANGED << env_vars, arg_vars, items, initial_item_count, pool_vars,
                    acc_vars, exit_code, cache_read, persist >>

\* if not symbol_filter: try: open(cache_path, 'w'); json.dump(...) except: log.
\*   "ok"          : the entry now holds the dumped final_output
\*   "open_failed" : open() raised, the entry is as it was
\*   "dump_failed" : open() truncated the file and json.dump raised part-way
PersistOutcomes == { "ok", "open_failed", "dump_failed" }

\* the cache write is skipped when a file already sits under the key
PersistIfAbsent ==
    /\ pc = "persisting"
    /\ IF cache[cache_key].state = "absent"
       THEN \E o \in PersistOutcomes :
               /\ persist' = o
               /\ cache' = IF o = "ok"
                           THEN [cache EXCEPT ![cache_key] = Valid(JsonDumps(final_output[1]))]
                           ELSE IF o = "dump_failed"
                           THEN [cache EXCEPT ![cache_key] = Corrupt]
                           ELSE cache
       ELSE UNCHANGED << cache, persist >>
    /\ pc' = "emitting"
    /\ UNCHANGED << script, unit_vars, workers, writer, pattern_scan, listing_file, today, run, prev, arg_vars,
                    items, initial_item_count, pool_vars, acc_vars, final_output,
                    out, exit_code, cache_read >>

Persist ==
    /\ pc = "persisting"
    /\ \E o \in PersistOutcomes :
          /\ persist' = o
          /\ cache' = IF o = "ok"
                      THEN [cache EXCEPT ![cache_key] = Valid(JsonDumps(final_output[1]))]
                      ELSE IF o = "dump_failed"
                      THEN [cache EXCEPT ![cache_key] = Corrupt]
                      ELSE cache
    /\ pc' = "emitting"
    /\ UNCHANGED << script, unit_vars, workers, writer, pattern_scan, listing_file, today, run, prev, arg_vars,
                    items, initial_item_count, pool_vars, acc_vars, final_output,
                    out, exit_code, cache_read >>

\* safe_print_json(final_output, status_code=0)
EmitFinal ==
    /\ pc = "emitting"
    /\ out' = Append(out, IF script = "dart" THEN JsonDumps(final_output[1])
                          ELSE Indented(JsonDumps(final_output[1])))
    /\ exit_code' = 0
    /\ pc' = "done"
    /\ UNCHANGED << env_vars, arg_vars, items, initial_item_count, pool_vars,
                    acc_vars, final_output, cache_read, persist >>

\* ------------------------------------------------------------ environment
\* The script is invoked a second time, the same day or the next one.
NextRun ==
    /\ pc = "done" /\ run = "first"
    /\ run' = "second"
    /\ prev' = [ ran |-> TRUE, day |-> today, filter |-> pattern_type_filter,
                 top_n |-> top_n, periods |-> periods, whole |-> symbol_filter = NoneVal,
                 terminal |-> << out[Len(out)] >>, persist |-> persist ]
    /\ \E d \in Days : d \in {today, today + 1} /\ today' = d
    /\ pc' = "start"
    /\ items' = << >> /\ initial_item_count' = 0
    /\ tasks' = << >> /\ doneq' = << >>
    /\ processed_count' = 0 /\ results' = << >> /\ errored_symbols' = << >>
    /\ final_output' = << >> /\ out' = << >> /\ exit_code' = -1
    /\ cache_read' = "no" /\ persist' = "none"
    /\ pattern_type_filter' = NoneVal /\ top_n' = 0 /\ symbol_filter' = NoneVal
    /\ dart_api_key' = "" /\ periods' = {}
    /\ UNCHANGED << script, unit_vars, workers, writer, pattern_scan, listing_file, cache >>

CacheListings ==
    { << >>, << Rec("B"), Rec("A") >>, << Rec("A"), Rec("C"), Rec("E") >>,
      << Rec("A"), Junk >> }

\* Between two invocations the data-refresh script rewrites stock_listing.json.
RefreshListing ==
    /\ pc = "start" /\ run = "second"
    /\ \E l \in CacheListings :
          /\ l # listing_file.items
          /\ listing_file' = [exists |-> TRUE, items |-> l]
    /\ UNCHANGED << script, unit_vars, workers, writer, pattern_scan, today, cache, run, prev, pc, arg_vars, items,
                    initial_item_count, pool_vars, acc_vars, final_output, out,
                    exit_code, cache_read, persist >>

\* A second process runs the same script with the same arguments at the same
\* time (it found no cache entry either). Its analysis gives the results in
\* its own completion order; here the tasks of its pool complete as submitted.
PeerOutput ==
    LET ok     == SelectSeq(load_listing,
                            LAMBDA it : analyze_symbol(it, periods, pattern_type_filter).kind = "result")
        rs     == [ k \in DOMAIN ok |-> analyze_symbol(ok[k], periods, pattern_type_filter).val[1] ]
        sorted == SortDesc(rs)
        final  == Truncate(sorted, top_n)
    IN  [ results |-> [ i \in DOMAIN final |-> PopScore(final[i]) ],
          mode |-> "analyze_result",
          filter |-> IF pattern_type_filter = NoneVal THEN "ma_only" ELSE pattern_type_filter,
          data_check |-> [ symbols_processed |-> Len(load_listing),
                           symbols_filtered  |-> Len(rs),
                           symbols_returned  |-> Len(final) ] ]

\* the other process: open(cache_path, 'w') creates or truncates the file;
\* until the dump is flushed the file holds no parsable document
PeerOpen ==
    /\ writer = "idle"
    /\ pc # "start" /\ symbol_filter = NoneVal
    /\ writer' = "opened"
    /\ cache' = [cache EXCEPT ![cache_key] = Corrupt]
    /\ UNCHANGED << script, unit_vars, workers, pattern_scan, listing_file, today, run, prev, pc,
                    arg_vars, items,
                    initial_item_count, pool_vars, acc_vars, final_output, out,
                    exit_code, cache_read, persist >>

\* the other process: json.dump(final_output, f) and close. The document is
\* written from offset 0 of the file as it is then: over an empty file it is
\* the whole content; over a document this process wrote in the meantime it
\* replaces it when it is at least as long, and is followed by the other
\* one's tail when it is shorter (time_taken_sec varies in length).
PeerDump ==
    /\ writer = "opened"
    /\ writer' = "closed"
    /\ \/ cache' = [cache EXCEPT ![cache_key] = Valid(JsonDumps(PeerOutput))]
       \/ /\ cache[cache_key].state = "valid"
          /\ cache' = [cache EXCEPT ![cache_key] = Corrupt]
    /\ UNCHANGED << script, unit_vars, workers, pattern_scan, listing_file, today, run, prev, pc,
                    arg_vars, items,
                    initial_item_count, pool_vars, acc_vars, final_output, out,
                    exit_code, cache_read, persist >>

\* check_ma_conditions, step 3: the pattern functions are applied to the frame
FindDoubleBottom ==
    /\ pattern_scan.Close # << >> /\ pattern_scan.db = << >>
    /\ pattern_scan' =
          [ pattern_scan EXCEPT !.db =
              << IF script = "dart"
                 THEN find_double_bottom(pattern_scan.Close, pattern_scan.troughs)
                 ELSE find_double_bottom_ai(pattern_scan.Close, pattern_scan.troughs) >> ]
    /\ UNCHANGED << script, unit_vars, workers, writer, listing_file, today, cache, run, prev, pc,
                    arg_vars, items, initial_item_count, pool_vars, acc_vars,
                    final_output, out, exit_code, cache_read, persist >>

FindTripleBottom ==
    /\ pattern_scan.Close # << >> /\ pattern_scan.tb = << >>
    /\ pattern_scan' =
          [ pattern_scan EXCEPT !.tb =
              << IF script = "dart"
                 THEN find_triple_bottom(pattern_scan.Close, pattern_scan.troughs)
                 ELSE find_triple_bottom_ai(pattern_scan.Close, pattern_scan.troughs) >> ]
    /\ UNCHANGED << script, unit_vars, workers, writer, listing_file, today, cache, run, prev, pc,
                    arg_vars, items, initial_item_count, pool_vars, acc_vars,
                    final_output, out, exit_code, cache_read, persist >>

FindCupAndHandle ==
    /\ pattern_scan.Close # << >> /\ pattern_scan.ch = << >>
    /\ pattern_scan' =
          [ pattern_scan EXCEPT !.ch =
              << IF script = "dart"
                 THEN find_cup_and_handle(pattern_scan.Close, pattern_scan.peaks)
                 ELSE find_cup_and_handle_ai(pattern_scan.Close, pattern_scan.peaks) >> ]
    /\ UNCHANGED << script, unit_vars, workers, writer, listing_file, today, cache, run, prev, pc,
                    arg_vars, items, initial_item_count, pool_vars, acc_vars,
                    final_output, out, exit_code, cache_read, persist >>

\* --------------------------------------------------------- regime labelling
\* what np.random's global generator may hold when the function is entered
GlobalStates == {7, 20}

RegimeOf(df, np_random) ==
    IF script = "dart" THEN add_market_regime_clustering(df, n_clusters, np_random)
    ELSE add_market_regime_clustering_ai(df, n_clusters, np_random)

\* analyze_symbol: df_full = add_market_regime_clustering(df_full)
ClusterOnce ==
    /\ regime_call.df # NoFrame /\ regime_call.calls = << >>
    /\ \E g \in GlobalStates :
          regime_call' = [ regime_call EXCEPT !.calls =
                             << [np_random |-> g, res |-> RegimeOf(regime_call.df, g)] >> ]
    /\ UNCHANGED << program_vars, feature_call, fetch_call, refresh >>

\* a later invocation on the same feature history (the next run of the script)
ClusterAgain ==
    /\ Len(regime_call.calls) = 1
    /\ \E g \in GlobalStates :
          regime_call' = [ regime_call EXCEPT !.calls =
                             Append(@, [np_random |-> g, res |-> RegimeOf(regime_call.df, g)]) ]
    /\ UNCHANGED << program_vars, feature_call, fetch_call, refresh >>

\* fetch_and_save_data, up to the loop: an up-to-date file is answered from the
\* file; a file with a last date gives an incremental download, any other
\* (absent, unreadable, without dates, or --force) a full one
FetchCheckFile ==
    /\ fetch_call.pc = "start"
    /\ IF fetch_call.file = "fresh" /\ ~fetch_call.force
       THEN fetch_call' = [ fetch_call EXCEPT !.pc = "returned",
                                              !.ret = << "already up to date", "cached" >> ]
       ELSE fetch_call' = [ fetch_call EXCEPT !.pc = "loop",
                              !.update_type = IF fetch_call.file = "stale" /\ ~fetch_call.force
                                              THEN "incremental" ELSE "full" ]
    /\ UNCHANGED << program_vars, regime_call, feature_call, refresh >>

\* one pass of `for attempt in range(MAX_RETRIES)`. The return after the loop
\* is never reached: the last pass returns in every branch.
FetchAttempt ==
    /\ fetch_call.pc = "loop" /\ fetch_call.attempt < MAX_RETRIES
    /\ \E o \in AttemptOutcomes, f \in {"absent", "fresh", "stale", "unreadable", "nodate"} :
          /\ f \in FileAfter(o, fetch_call.file)
          /\ IF Retries(o, fetch_call.attempt)
             THEN fetch_call' = [ fetch_call EXCEPT !.attempt = @ + 1,
                                                    !.trace = Append(@, o),
                                                    !.file = f ]
             ELSE fetch_call' = [ fetch_call EXCEPT !.pc = "returned",
                                    !.trace = Append(@, o),
                                    !.file = f,
                                    !.ret = AttemptReturn(o, fetch_call.update_type) ]
    /\ UNCHANGED << program_vars, regime_call, feature_call, refresh >>

\* what the download of one stock does: it returns a (message, type) pair of
\* that type, or it never responds
Fates == {"cached", "success", "failed", "hang"}

RefreshIn(st) == { i \in DOMAIN refresh.futures : refresh.futures[i] \in st }

\* a worker thread of the pool takes the oldest pending future
RefreshStartTask ==
    /\ refresh.pc \in {"as_completed", "shutdown"}
    /\ RefreshIn({"pending"}) # {}
    /\ Cardinality(RefreshIn({"running"})) < refresh.max_workers
    /\ LET i == CHOOSE j \in RefreshIn({"pending"}) :
                    \A l \in RefreshIn({"pending"}) : j <= l
       IN  refresh' = [ refresh EXCEPT !.futures[i] = "running" ]
    /\ UNCHANGED << program_vars, regime_call, feature_call, fetch_call >>

\* the download of a running future returns
RefreshFinishTask(i) ==
    /\ refresh.futures[i] = "running" /\ refresh.fate[i] # "hang"
    /\ refresh' = [ refresh EXCEPT !.futures[i] = "done" ]
    /\ UNCHANGED << program_vars, regime_call, feature_call, fetch_call >>

\* one pass of the loop over as_completed(futures): it yields a finished
\* future, whose result(timeout=PER_STOCK_TIMEOUT) is there at once, and the
\* counts are updated
RefreshYield(i) ==
    /\ refresh.pc = "as_completed"
    /\ refresh.futures[i] = "done" /\ i \notin refresh.yielded
    /\ refresh' = [ refresh EXCEPT
          !.yielded = @ \cup {i},
          !.completed_count = @ + 1,
          !.failed_count = IF refresh.fate[i] = "failed" THEN @ + 1 ELSE @,
          !.success_count = IF refresh.fate[i] \in {"failed", "cached"} THEN @ ELSE @ + 1 ]
    /\ UNCHANGED << program_vars, regime_call, feature_call, fetch_call >>

\* as_completed is exhausted: every future was yielded
RefreshLoopEnd ==
    /\ refresh.pc = "as_completed"
    /\ refresh.yielded = DOMAIN refresh.futures
    /\ refresh' = [ refresh EXCEPT !.pc = "shutdown" ]
    /\ UNCHANGED << program_vars, regime_call, feature_call, fetch_call >>

\* update_stock_listing.py: as_completed(timeout=MAX_TOTAL_SECONDS) has to wait
\* for a future past the limit and raises TimeoutError; the handler calls
\* cancel() on the futures that are not done, which cancels the pending ones
\* and leaves the running ones running
RefreshGlobalTimeout ==
    /\ refresh.pc = "as_completed" /\ refresh.limit
    /\ RefreshIn({"pending", "running"}) # {}
    /\ refresh' = [ refresh EXCEPT
          !.pc = "shutdown",
          !.futures = [ i \in DOMAIN refresh.futures |->
                          IF refresh.futures[i] = "pending" THEN "cancelled"
                          ELSE refresh.futures[i] ] ]
    /\ UNCHANGED << program_vars, regime_call, feature_call, fetch_call >>

\* the end of `with ThreadPoolExecutor(...)`: shutdown(wait=True) joins the
\* worker threads, then the counts are returned
RefreshReturn ==
    /\ refresh.pc = "shutdown"
    /\ RefreshIn({"pending", "running"}) = {}
    /\ refresh' = [ refresh EXCEPT !.pc = "returned" ]
    /\ UNCHANGED << program_vars, regime_call, feature_call, fetch_call >>

\* analyze_symbol: df_full = calculate_advanced_features(df_raw), for either series
DeriveFeatures ==
    /\ feature_call.series # << >> /\ feature_call.frames = << >>
    /\ feature_call' = [ feature_call EXCEPT !.frames =
                           [ s \in DOMAIN feature_call.series |->
                               calculate_advanced_features(feature_call.series[s]) ] ]
    /\ UNCHANGED << program_vars, regime_call, fetch_call, refresh >>

\* ---------------------------------------------------------- specifications
EmptyCache == [ k \in CacheKeys |-> Absent ]

ListingFiles ==
    { [exists |-> TRUE, items |-> l] : l \in SmallListings \cup { LongListing } }
      \cup { [exists |-> FALSE, items |-> << >>] }

\* One invocation of either script, any listing, any pool size (the long
\* listing is analysed by a pool of one worker).
Init ==
    /\ script \in {"dart", "ai"}
    /\ workers \in 1 .. MaxWorkers
    /\ listing_file \in ListingFiles
    /\ listing_file.items = LongListing => workers = 1
    /\ today = 1
    /\ cache = EmptyCache
    /\ run = "first"
    /\ prev = NoPrev
    /\ writer = "idle"
    /\ pattern_scan = NoScan
    /\ UnitIdle
    /\ FreshRun

Next ==
    \/ StartRun
    \/ StartRunAi
    \/ CacheCheck
    \/ LoadListing
    \/ LoadListingAi
    \/ Dispatch
    \/ \E i \in DOMAIN tasks : StartTask(i)
    \/ \E i \in DOMAIN tasks : FinishTask(i)
    \/ Collect
    \/ CollectAi
    \/ Unwind
    \/ Rank
    \/ Summarise
    \/ Persist
    \/ EmitFinal

Spec == Init /\ [][Next]_vars

\* Two consecutive invocations of the caching script sharing CACHE_DIR.
InitCache ==
    /\ script = "dart"
    /\ workers \in 1 .. MaxWorkers
    /\ listing_file \in { [exists |-> TRUE, items |-> l] : l \in CacheListings }
    /\ today = 1
    /\ cache = EmptyCache
    /\ run = "first"
    /\ prev = NoPrev
    /\ writer = "idle"
    /\ pattern_scan = NoScan
    /\ UnitIdle
    /\ FreshRun

NextCache ==
    \/ StartRun
    \/ CacheCheck
    \/ LoadListing
    \/ Dispatch
    \/ \E i \in DOMAIN tasks : StartTask(i)
    \/ \E i \in DOMAIN tasks : FinishTask(i)
    \/ Collect
    \/ Unwind
    \/ Rank
    \/ Persist
    \/ EmitFinal
    \/ NextRun
    \/ RefreshListing

SpecCache == InitCache /\ [][NextCache]_vars

\* Two consecutive whole-universe runs with any filter of the enumeration, on a
\* listing of one instrument that has no price file.
InitKey ==
    /\ script = "dart"
    /\ workers = 1
    /\ listing_file = [exists |-> TRUE, items |-> << Rec("N01") >>]
    /\ today = 1
    /\ cache = [ k \in AllCacheKeys |-> Absent ]
    /\ run = "first"
    /\ prev = NoPrev
    /\ writer = "idle"
    /\ pattern_scan = NoScan
    /\ UnitIdle
    /\ FreshRun

NextKey ==
    \/ StartRunAny
    \/ CacheCheck
    \/ LoadListing
    \/ Dispatch
    \/ \E i \in DOMAIN tasks : StartTask(i)
    \/ \E i \in DOMAIN tasks : FinishTask(i)
    \/ Collect
    \/ Rank
    \/ Persist
    \/ EmitFinal
    \/ NextRun

SpecKey == InitKey /\ [][NextKey]_vars

RaceListings == { << Rec("B"), Rec("A") >>, << Rec("A"), Rec("C") >> }

\* One invocation of the caching script while another process runs the same
\* script with the same arguments; neither finds a cache entry at its start.
InitRace ==
    /\ script = "dart"
    /\ workers \in 1 .. MaxWorkers
    /\ listing_file \in { [exists |-> TRUE, items |-> l] : l \in RaceListings }
    /\ today = 1
    /\ cache = EmptyCache
    /\ run = "first"
    /\ prev = NoPrev
    /\ writer = "idle"
    /\ pattern_scan = NoScan
    /\ UnitIdle
    /\ FreshRun

NextRace ==
    \/ StartRun
    \/ CacheCheck
    \/ LoadListing
    \/ Dispatch
    \/ \E i \in DOMAIN tasks : StartTask(i)
    \/ \E i \in DOMAIN tasks : FinishTask(i)
    \/ Collect
    \/ Rank
    \/ Persist
    \/ EmitFinal
    \/ PeerOpen
    \/ PeerDump

SpecRace == InitRace /\ [][NextRace]_vars

SeriesListings ==
    { << Rec(c) >> : c \in {"A", "B", "C", "S", "D", "G"} }
        \cup { << Rec("D"), Rec("G") >>, << Rec("G"), Rec("A"), Rec("D") >> }

\* One whole-universe run of the caching script with a moving-average filter
\* over stored series of different lengths and shapes.
InitAnalyze ==
    /\ script = "dart"
    /\ workers \in 1 .. MaxWorkers
    /\ listing_file \in { [exists |-> TRUE, items |-> l] : l \in SeriesListings }
    /\ today = 1
    /\ cache = [ k \in AllCacheKeys |-> Absent ]
    /\ run = "first"
    /\ prev = NoPrev
    /\ writer = "idle"
    /\ pattern_scan = NoScan
    /\ UnitIdle
    /\ FreshRun

NextAnalyze ==
    \/ StartRunMa
    \/ CacheCheck
    \/ LoadListing
    \/ Dispatch
    \/ \E i \in DOMAIN tasks : StartTask(i)
    \/ \E i \in DOMAIN tasks : FinishTask(i)
    \/ Collect
    \/ Rank
    \/ Persist
    \/ EmitFinal

SpecAnalyze == InitAnalyze /\ [][NextAnalyze]_vars

\* Two consecutive whole-universe runs of the caching script that may request
\* different moving-average windows, on a listing with results.
InitParams ==
    /\ script = "dart"
    /\ workers = 1
    /\ listing_file \in { [exists |-> TRUE, items |-> l] : l \in { << Rec("A") >>, << Rec("B"), Rec("A") >> } }
    /\ today = 1
    /\ cache = EmptyCache
    /\ run = "first"
    /\ prev = NoPrev
    /\ writer = "idle"
    /\ pattern_scan = NoScan
    /\ UnitIdle
    /\ FreshRun

NextParams ==
    \/ StartRunPeriods
    \/ CacheCheck
    \/ LoadListing
    \/ Dispatch
    \/ \E i \in DOMAIN tasks : StartTask(i)
    \/ \E i \in DOMAIN tasks : FinishTask(i)
    \/ Collect
    \/ Rank
    \/ Persist
    \/ EmitFinal
    \/ NextRun

SpecParams == InitParams /\ [][NextParams]_vars

\* Price frames for the pattern functions: `lead` bars at the interim high
\* (the first of them a trough at 100 when the frame has three troughs), a
\* trough at 100, the interim high, bars just above the trough, a trough `gap`
\* bars after the previous one, a right peak and the latest close. The frame
\* comes with its `k` most recent troughs and its min(k, 2) most recent peaks.
Fill(n, v) == [ i \in 1 .. n |-> v ]
Frame(lead, p2, hi, gap, rp, last, k) ==
    [ Close   |-> << IF k = 3 THEN 100 ELSE hi >> \o Fill(lead - 1, hi) \o << 100, hi >>
                     \o Fill(gap - 2, 101) \o << p2, rp, last >>,
      troughs |-> CASE k = 0 -> << >>
                    [] k = 1 -> << lead + gap >>
                    [] k = 2 -> << lead, lead + gap >>
                    [] OTHER -> << 0, lead, lead + gap >>,
      peaks   |-> CASE k = 0 -> << >>
                    [] k = 1 -> << lead + gap + 1 >>
                    [] OTHER -> << lead + 1, lead + gap + 1 >>,
      db      |-> << >>,
      tb      |-> << >>,
      ch      |-> << >> ]

Frames ==
    { Frame(lead, p2, hi, gap, rp, last, k) :
        lead \in {1, 60}, p2 \in {100, 104, 105}, hi \in {109, 110, 115},
        gap \in {29, 30, 40}, rp \in {106, 118},
        last \in {80, 105, 108, 110, 115, 116, 118, 120}, k \in 0 .. 3 }
      \ { Frame(1, p2, hi, gap, rp, last, 3) :
             p2 \in {100, 104, 105}, hi \in {109, 110, 115}, gap \in {29, 30, 40},
             rp \in {106, 118}, last \in {80, 105, 108, 110, 115, 116, 118, 120} }

\* The pattern functions of either script applied to one frame.
InitPattern ==
    /\ script \in {"dart", "ai"}
    /\ workers = 1
    /\ listing_file = [exists |-> TRUE, items |-> << >>]
    /\ today = 1
    /\ cache = EmptyCache
    /\ run = "first"
    /\ prev = NoPrev
    /\ writer = "idle"
    /\ pattern_scan \in Frames
    /\ UnitIdle
    /\ FreshRun

NextPattern ==
    \/ FindDoubleBottom
    \/ FindTripleBottom
    \/ FindCupAndHandle

SpecPattern == InitPattern /\ [][NextPattern]_vars

\* Feature frames of d distinct vectors on n rows: the first vector fills the
\* rows the others (w rows each) leave.
RegimeFrame(d, n, w, inf, cols) ==
    [ pts       |-> SubSeq(<< 1, 2, 4, 7, 8 >>, 1, d),
      cnt       |-> [ i \in 1 .. d |->
                        IF i = 1 THEN n - (IF inf THEN 1 ELSE 0) - (d - 1) * w ELSE w ],
      nonfinite |-> inf,
      cols      |-> cols ]

RegimeFrames ==
    { RegimeFrame(d, n, w, inf, TRUE) :
        d \in 1 .. 5, n \in {49, 50, 199, 200, 201}, w \in {1, 10}, inf \in BOOLEAN }
      \cup { RegimeFrame(4, 200, 10, FALSE, FALSE) }

ProgramIdle ==
    /\ workers = 1
    /\ listing_file = [exists |-> TRUE, items |-> << >>]
    /\ today = 1
    /\ cache = EmptyCache
    /\ run = "first"
    /\ prev = NoPrev
    /\ writer = "idle"
    /\ pattern_scan = NoScan
    /\ FreshRun

\* add_market_regime_clustering of either script applied twice to one frame.
\* The features of athena_k_market_ai.py hold no logarithm, hence no infinity.
InitRegime ==
    /\ script \in {"dart", "ai"}
    /\ ProgramIdle
    /\ regime_call \in { [df |-> f, calls |-> << >>] : f \in RegimeFrames }
    /\ feature_call = NoFeatures
    /\ fetch_call = NoFetch
    /\ refresh = NoRefresh
    /\ script = "ai" => ~regime_call.df.nonfinite

NextRegime ==
    \/ ClusterOnce
    \/ ClusterAgain

SpecRegime == InitRegime /\ [][NextRegime]_vars

\* Price series of 200 to 202 bars: a saw-tooth of 199 bars, flat or with a
\* spike at bar 100, then one to three bars.
Sawtooth(spike) == [ j \in 1 .. 199 |-> IF j = 100 THEN spike ELSE 10 + (j % 3) ]

Tails == UNION { [ 1 .. n -> {10, 13} ] : n \in 1 .. 3 }

PriceSeries == { Sawtooth(spike) \o t : spike \in {11, 30}, t \in Tails }

\* calculate_advanced_features applied to two price series.
InitFeatures ==
    /\ script = "dart"
    /\ ProgramIdle
    /\ regime_call = NoCall
    /\ feature_call \in { [series |-> << a, b >>, frames |-> << >>] : a, b \in PriceSeries }
    /\ fetch_call = NoFetch
    /\ refresh = NoRefresh

NextFeatures == DeriveFeatures

SpecFeatures == InitFeatures /\ [][NextFeatures]_vars

\* fetch_and_save_data for one instrument, whatever its parquet file holds.
InitFetch ==
    /\ script = "dart"
    /\ ProgramIdle
    /\ regime_call = NoCall
    /\ feature_call = NoFeatures
    /\ fetch_call \in { [ NoFetch EXCEPT !.file = f, !.force = g, !.pc = "start" ] :
                           f \in {"absent", "fresh", "stale", "unreadable", "nodate"},
                           g \in BOOLEAN }
    /\ refresh = NoRefresh

NextFetch ==
    \/ FetchCheckFile
    \/ FetchAttempt

SpecFetch == InitFetch /\ [][NextFetch]_vars

\* download_and_save_stocks on a listing of 1 .. MaxStocks stocks: with the
\* overall limit (update_stock_listing.py) or without it (the prod variant).
InitRefresh ==
    /\ script = "dart"
    /\ ProgramIdle
    /\ regime_call = NoCall
    /\ feature_call = NoFeatures
    /\ fetch_call = NoFetch
    /\ \E n \in 1 .. MaxStocks, w \in 1 .. MaxWorkers, lim \in BOOLEAN :
          \E fate \in [ 1 .. n -> Fates ] :
             refresh = [ NoRefresh EXCEPT !.limit = lim, !.max_workers = w, !.fate = fate,
                                          !.futures = [ i \in 1 .. n |-> "pending" ],
                                          !.pc = "as_completed" ]

NextRefresh ==
    \/ RefreshStartTask
    \/ \E i \in DOMAIN refresh.futures : RefreshFinishTask(i)
    \/ \E i \in DOMAIN refresh.futures : RefreshYield(i)
    \/ RefreshLoopEnd
    \/ RefreshGlobalTimeout
    \/ RefreshReturn

\* the threads run and the clock advances
SpecRefresh == InitRefresh /\ [][NextRefresh]_vars /\ WF_vars(NextRefresh)

\* ------------------------------------------------------------- properties
ProgressLines == SelectSeq(out, IsProgress)
LastLine      == out[Len(out)]

\* what the task submitted for items[i] returns or raises
TaskOutcome(i) ==
    IF script = "dart" THEN analyze_symbol(items[i], periods, pattern_type_filter)
    ELSE analyze_symbol_ai(items[i], periods, pattern_type_filter)

Matching   == { i \in DOMAIN tasks : TaskOutcome(i).kind = "result" }
N_matching == Cardinality(Matching)

\* the ranking score the worker attached to the result of this ticker
Score(r) == SortKey(MakeResult(r.ticker, check_ma_conditions(periods, PriceStore(r.ticker)), TRUE))

Tickers(rs) == { rs[k].ticker : k \in DOMAIN rs }

\* the run computed a BatchResult and emitted it
Completed == pc = "done" /\ final_output # << >>

\* C1: a run that dispatched N tasks emits exactly N progress events, numbered
\* 1..N in emission order, each with total_symbols = N, whatever the outcomes.
C1_ProgressExact ==
    pc = "done" =>
        /\ Len(ProgressLines) = Len(tasks)
        /\ \A k \in DOMAIN ProgressLines :
               ProgressLines[k] = ProgressEvent(Len(tasks), k)

\* C2: the emitted results are in descending order of ranking score and their
\* number is min(N_matching, top_n) when top_n > 0, N_matching otherwise.
C2_RankedAndTruncated ==
    (script = "dart" /\ Completed) =>
        LET R == LastLine.results IN
        /\ \A j, k \in DOMAIN R : j < k => Score(R[j]) >= Score(R[k])
        /\ Len(R) = IF top_n > 0 THEN Min(N_matching, top_n) ELSE N_matching

\* two results were accumulated out of rank order and top_n cut the list
C2_Witness ==
    /\ script = "dart" /\ Completed
    /\ top_n > 0 /\ N_matching > top_n
    /\ \E j, k \in DOMAIN doneq :
          /\ j < k /\ doneq[j] \in Matching /\ doneq[k] \in Matching
          /\ SortKey(TaskOutcome(doneq[j]).val[1]) < SortKey(TaskOutcome(doneq[k]).val[1])
    /\ Len(LastLine.results) = top_n

\* the results the tasks return, in submission order
SubmissionOrderResults ==
    LET ok == SelectSeq(items, LAMBDA it : analyze_symbol(it, periods, pattern_type_filter).kind = "result")
    IN  [ k \in DOMAIN ok |-> analyze_symbol(ok[k], periods, pattern_type_filter).val[1] ]

\* C3: the set of results in the emitted BatchResult is the one obtained when
\* the tasks complete in submission order, whatever order they completed in.
C3_OrderIndependent ==
    (script = "dart" /\ Completed) =>
        Tickers(LastLine.results) = Tickers(Truncate(SortDesc(SubmissionOrderResults), top_n))

\* C4: whatever the tasks do, a run that dispatched tasks collects every one
\* of them and ends by emitting a BatchResult holding every matching result.
C4_FailureContained ==
    (pc = "done" /\ tasks # << >>) =>
        /\ processed_count = Len(tasks)
        /\ Len(results) = N_matching
        /\ IsBatchResult(LastLine)
        /\ exit_code = 0

\* a whole-universe run whose cache entry exists and parses
ValidEntry == symbol_filter = NoneVal /\ cache[cache_key].state = "valid"

\* C5: a whole-universe run that finds a readable entry under its key emits
\* exactly that document and exits 0: no task, no progress event, no write.
C5_CacheHit ==
    /\ [][ (pc = "cachecheck" /\ ValidEntry) =>
              /\ pc' = "done" /\ exit_code' = 0
              /\ out' = << cache[cache_key].text[1] >>
              /\ tasks' = << >> /\ cache' = cache /\ persist' = "none" ]_vars
    /\ [](cache_read = "hit" =>
              /\ pc = "done" /\ tasks = << >> /\ ProgressLines = << >>
              /\ persist = "none" /\ cache[cache_key] = Valid(out[1]))

\* the second run is served a non-empty BatchResult from the cache
C5_Witness ==
    /\ run = "second" /\ cache_read = "hit" /\ pc = "done"
    /\ out = << cache[cache_key].text[1] >>
    /\ Len(out[1].results) >= 1

\* the second of two whole-universe runs with the same day, filter and top_n,
\* the first of which ended with a BatchResult
SecondOfSame ==
    /\ run = "second" /\ pc = "done"
    /\ prev.whole /\ symbol_filter = NoneVal
    /\ prev.day = today /\ prev.filter = pattern_type_filter /\ prev.top_n = top_n
    /\ IsBatchResult(prev.terminal[1])

TickerListed ==
    \E i \in DOMAIN load_listing :
        load_listing[i].dict /\ load_listing[i].Code = symbol_filter

\* C7: a single-ticker run never reads the cache and never writes it, and
\* when the ticker is listed it has submitted exactly one task.
C7_SingleTickerBypass ==
    symbol_filter # NoneVal =>
        /\ cache_read = "no" /\ persist = "none"
        /\ (pc = "done" /\ TickerListed) => Len(tasks) = 1

\* C8 as stated: a run that found an unreadable entry and completed its batch
\* has emitted a freshly computed BatchResult and the entry now holds it.
C8_UnreadableOverwritten ==
    (cache_read = "unreadable" /\ Completed) =>
        /\ exit_code = 0 /\ LastLine = JsonDumps(final_output[1])
        /\ Len(tasks) = Len(load_listing)
        /\ cache[cache_key] = Valid(LastLine)

\* C8: an unreadable entry is treated as a miss (nothing emitted, the listing
\* is loaded next); a run that then completes its batch has analysed the
\* whole listing, emits the BatchResult it computed and has attempted the
\* cache write, which replaces the entry when it succeeds.
C8_UnreadableIsMiss ==
    /\ [][ (pc = "cachecheck" /\ symbol_filter = NoneVal
              /\ cache[cache_key].state = "corrupt") =>
              (pc' = "load" /\ out' = out /\ exit_code' = exit_code /\ cache' = cache) ]_vars
    /\ []((cache_read = "unreadable" /\ Completed) =>
              /\ exit_code = 0
              /\ Len(tasks) = Len(load_listing) /\ processed_count = Len(tasks)
              /\ Len(ProgressLines) = Len(tasks)
              /\ LastLine = JsonDumps(final_output[1])
              /\ persist \in PersistOutcomes
              /\ (persist = "ok" => cache[cache_key] = Valid(LastLine))
              /\ (persist = "open_failed" => cache[cache_key] = Corrupt)
              /\ (persist = "dump_failed" => cache[cache_key] = Corrupt))

C8_Witness ==
    /\ cache_read = "unreadable" /\ Completed /\ persist = "ok"
    /\ Len(LastLine.results) >= 1
    /\ cache[cache_key] = Valid(LastLine)

EmptyUniverse == symbol_filter = NoneVal /\ load_listing = << >>
TickerMissing == symbol_filter # NoneVal /\ ~TickerListed

\* exactly one error object and nothing else: no task, no BatchResult, no write
OnlyAnError ==
    /\ Len(out) = 1 /\ IsError(out[1]) /\ exit_code = 1
    /\ tasks = << >> /\ final_output = << >> /\ persist = "none"

C10_AccumulatorExact ==
    /\ [][ (results' # results \/ processed_count' # processed_count) =>
              (tasks' = tasks /\ doneq' = doneq) ]_vars
    /\ [](pc \in {"ranking", "summarise"} =>
              /\ processed_count = Len(tasks)
              /\ Len(results) = N_matching
              /\ \A i \in Matching :
                     Cardinality({ k \in DOMAIN results :
                                     results[k] = TaskOutcome(i).val[1] }) = 1)

\* two workers, results accumulated out of submission order
C10_Witness ==
    /\ pc = "ranking" /\ workers >= 2 /\ Len(results) >= 2
    /\ \E j, k \in DOMAIN doneq : j < k /\ doneq[j] > doneq[k]
                                    /\ doneq[j] \in Matching /\ doneq[k] \in Matching

\* C11: a whole-universe run of the caching script submits one task per
\* listing record (task i analyses record i), and at no time do more than
\* `workers` tasks execute.
C11_PoolBounded ==
    /\ Cardinality(Running) <= workers
    /\ (script = "dart" /\ symbol_filter = NoneVal /\ tasks # << >>) =>
           (items = load_listing /\ DOMAIN tasks = DOMAIN load_listing)
    /\ \A i \in DOMAIN tasks : tasks[i] \in {"pending", "running", "done"}

\* the pool is saturated while a submitted task still waits for a worker
C11_Witness ==
    /\ script = "dart" /\ symbol_filter = NoneVal
    /\ workers = MaxWorkers /\ Cardinality(Running) = workers
    /\ \E i \in DOMAIN tasks : tasks[i] = "pending"

\* a line of stdout that is one complete JSON object
IsJsonLine(line) == "log" \notin DOMAIN line /\ "indent" \notin DOMAIN line
IsTerminal(line) == IsBatchResult(line) \/ IsError(line)

\* C12: every line of stdout is one complete JSON object, a ProgressEvent or
\* the terminal BatchResult/error object; the terminal object is written
\* once, as the last line of a finished run.
C12_OneObjectPerLine ==
    /\ \A k \in DOMAIN out :
          /\ IsJsonLine(out[k])
          /\ IsProgress(out[k]) \/ IsTerminal(out[k])
          /\ IsTerminal(out[k]) => (k = Len(out) /\ pc = "done")
    /\ pc = "done" => (out # << >> /\ IsTerminal(LastLine))

Unfinished == { i \in DOMAIN tasks : tasks[i] \in {"pending", "running"} }

\* C13: within a run the cache is read only at the cache check, before any
\* task exists, and written only by the persisting step, after every task
\* was collected and ranked and before the BatchResult is emitted; the main
\* thread is at neither step while a task is pending or running.
C13_CacheOutsideConcurrentPhase ==
    /\ [][ (cache_read' # cache_read /\ pc # "done") =>
              (pc = "cachecheck" /\ tasks = << >> /\ tasks' = << >>) ]_vars
    /\ [][ (cache' # cache \/ persist' # persist) =>
              \/ pc \in {"start", "done"} /\ tasks = << >>
              \/ pc = "done" /\ Unfinished = {}
              \/ /\ pc = "persisting" /\ Unfinished = {}
                 /\ processed_count = Len(tasks) /\ final_output # << >>
                 /\ \A k \in DOMAIN out : ~IsTerminal(out[k]) ]_vars
    /\ [](Unfinished # {} => pc \in {"collecting", "unwinding"})
    /\ []((symbol_filter = NoneVal /\ pc \in {"emitting", "done"} /\ final_output # << >>)
              => persist # "none")

\* a run that read an unreadable entry before its two-worker batch is about
\* to write the cache
C13_Witness ==
    /\ pc = "persisting" /\ cache_read = "unreadable"
    /\ workers >= 2 /\ Len(tasks) >= 2 /\ Unfinished = {}

\* the analysis of this listing record raises an exception, inside or outside
\* the worker's try block
AnalysisRaised(item) ==
    \/ ~item.dict
    \/ PriceStore(item.Code).stat \in {"badfile", "oserror"}

N_raised == Cardinality({ i \in DOMAIN tasks : AnalysisRaised(items[i]) })

\* C14: a completed batch in which some analysis raised emits the results of
\* the analyses that succeeded, and its diagnostics carry a failure count
\* equal to the number of tasks whose analysis raised.
C14_FailureCount ==
    (Completed /\ N_raised > 0) =>
        /\ Len(results) = N_matching
        /\ "symbols_failed" \in DOMAIN LastLine.data_check
        /\ LastLine.data_check.symbols_failed = N_raised

\* C15: a whole-universe run is served from the cache only by an entry that a
\* whole-universe run with the same day, the same filter and the same top_n
\* wrote: runs that differ in one of the three use different cache keys.
C15_ServedOnlySameTriple ==
    (run = "second" /\ cache_read = "hit") =>
        /\ symbol_filter = NoneVal /\ prev.whole /\ prev.persist = "ok"
        /\ prev.day = today /\ prev.filter = pattern_type_filter /\ prev.top_n = top_n
        /\ out = prev.terminal

\* a later run with a filter that differs only in its regime number, the
\* same day and top_n, is not served the entry of the first run
C15_Witness ==
    /\ run = "second" /\ pc = "done" /\ cache_read = "no"
    /\ prev.whole /\ prev.persist = "ok" /\ prev.day = today /\ prev.top_n = top_n
    /\ prev.filter = "regime:1" /\ pattern_type_filter = "regime:2"
    /\ IsBatchResult(LastLine)

\* C16: cache entries are replaced atomically. A run whose cache check falls
\* into another run's write of the same key finds no entry or a complete one,
\* never a file it cannot parse; and once both runs have written, the entry is
\* the complete output of one of them.
C16_AtomicReplace ==
    /\ cache_read # "unreadable"
    /\ (pc = "done" /\ writer = "closed" /\ persist = "ok") =>
           cache[cache_key] \in { Valid(JsonDumps(PeerOutput)), Valid(JsonDumps(final_output[1])) }

\* the listing provider is unavailable: stock_listing.json is missing or
\* cannot be parsed
ListingUnavailable == ~listing_file.exists

\* C17: a whole-universe run of the caching script whose listing file is
\* unavailable ends with the empty-universe error object alone and submits no
\* analysis task.
C17_UnavailableIsEmptyError ==
    (script = "dart" /\ symbol_filter = NoneVal /\ ListingUnavailable /\ pc = "done") =>
        /\ out = << ErrorObject("LISTING_DATA_EMPTY") >>
        /\ tasks = << >> /\ exit_code = 1

\* C18: analyze_symbol on a 300-bar strictly declining series with the
\* all_below_ma filter returns a result (not None) whose above_ma20,
\* above_ma50 and above_ma200 are all false.
C18_DecliningBelowAll ==
    \A i \in DOMAIN tasks :
        ( /\ pattern_type_filter = "all_below_ma" /\ tasks[i] = "done"
          /\ periods = {20, 50, 200}
          /\ StrictlyDeclining(items[i].Code) /\ PriceStore(items[i].Code).bars = 300 ) =>
            /\ TaskOutcome(i).kind = "result"
            /\ \A p \in Periods : ~PriceStore(items[i].Code).above[p]
            /\ LET tc == TaskOutcome(i).val[1].technical_conditions
               IN  \A p \in {20, 50, 200} : p \in DOMAIN tc.above_ma /\ ~tc.above_ma[p].v

\* the frame's two most recent troughs, its neckline and its latest close
HasTwoTroughs   == Len(pattern_scan.troughs) >= 2
Trough2         == pattern_scan.troughs[Len(pattern_scan.troughs)]
Trough1         == pattern_scan.troughs[Len(pattern_scan.troughs) - 1]
TroughLow       == Min(Iloc(pattern_scan.Close, Trough1), Iloc(pattern_scan.Close, Trough2))
TroughHigh      == Max(Iloc(pattern_scan.Close, Trough1), Iloc(pattern_scan.Close, Trough2))
HighestBetween  == MaxOf(Slice(pattern_scan.Close, Trough1, Trough2))
LatestClose     == Last(pattern_scan.Close)
NoStatus        == { << >>, << "None" >> }

\* C19: when the two most recent troughs are at least 30 bars apart and within
\* 5% of each other, find_double_bottom reports the highest close between
\* them as neckline with status 'Breakout' if the latest close is above it,
\* 'Potential' if the latest close is at or below it and more than half way up
\* from the troughs, and no status otherwise.
C19_DoubleBottomStatus ==
    ( /\ pattern_scan.db # << >> /\ HasTwoTroughs
      /\ Trough2 - Trough1 >= 30
      /\ (TroughHigh - TroughLow) * 100 < 5 * TroughLow ) =>
        LET r == pattern_scan.db[1] IN
        IF LatestClose > HighestBetween
        THEN r.status = << "Breakout" >> /\ r.price = << HighestBetween >>
        ELSE IF 2 * (LatestClose - TroughLow) > HighestBetween - TroughLow
        THEN r.status = << "Potential" >> /\ r.price = << HighestBetween >>
        ELSE r.status \in NoStatus

HasPeak       == pattern_scan.peaks # << >>
RightPeak     == Iloc(pattern_scan.Close, pattern_scan.peaks[Len(pattern_scan.peaks)])

\* C20: find_cup_and_handle reports 'Breakout' (matched) whenever the frame
\* has a recent peak and the latest close is above that peak's price,
\* 'Potential' when the handle is forming and the latest close is not above
\* the peak, and no status otherwise.
C20_CupAndHandleStatus ==
    (pattern_scan.ch # << >> /\ HasPeak) =>
        LET r == pattern_scan.ch[1] IN
        IF LatestClose > RightPeak
        THEN r.status = << "Breakout" >> /\ r.matched
        ELSE IF HandleForming(pattern_scan.Close, pattern_scan.peaks[Len(pattern_scan.peaks)])
        THEN r.status = << "Potential" >>
        ELSE r.status \in NoStatus

\* the tuple (False, None, None, None)
NullVerdict(r) == ~r.matched /\ r.neckline = << >> /\ r.status = << >> /\ r.price = << >>

\* C21: a pattern function given fewer extrema than it needs (fewer than two
\* troughs for the double bottom, three for the triple bottom, no peak for the
\* cup and handle; the empty set included) returns (False, None, None, None).
C21_TooFewExtrema ==
    /\ (pattern_scan.db # << >> /\ Len(pattern_scan.troughs) < 2) => NullVerdict(pattern_scan.db[1])
    /\ (pattern_scan.tb # << >> /\ Len(pattern_scan.troughs) < 3) => NullVerdict(pattern_scan.tb[1])
    /\ (pattern_scan.ch # << >> /\ Len(pattern_scan.peaks) < 1) => NullVerdict(pattern_scan.ch[1])

\* all three functions have answered on a frame with no extrema at all
C21_Witness ==
    /\ pattern_scan.db # << >> /\ pattern_scan.tb # << >> /\ pattern_scan.ch # << >>
    /\ script = "dart" /\ pattern_scan.troughs = << >> /\ pattern_scan.peaks = << >>
    /\ NullVerdict(pattern_scan.db[1]) /\ NullVerdict(pattern_scan.tb[1])
    /\ NullVerdict(pattern_scan.ch[1])

\* C22: a pattern function given at least its minimum number of extrema
\* returns a neckline price, whatever the status.
C22_NecklineDefined ==
    /\ (pattern_scan.db # << >> /\ Len(pattern_scan.troughs) >= 2) => pattern_scan.db[1].price # << >>
    /\ (pattern_scan.tb # << >> /\ Len(pattern_scan.troughs) >= 3) => pattern_scan.tb[1].price # << >>
    /\ (pattern_scan.ch # << >> /\ Len(pattern_scan.peaks) >= IF script = "dart" THEN 2 ELSE 1)
           => pattern_scan.ch[1].price # << >>

\* the filter predicate on the outcome map of a stored series
FilterHolds(flt, st) ==
    CASE flt = NoneVal        -> TRUE
      [] flt = "ma"           -> \A p \in Periods : st.above[p]
      [] flt = "all_below_ma" -> \A p \in Periods : ~st.above[p]
      [] flt = "regime:2"     -> st.regime = 2
      [] OTHER                -> FALSE

\* C23: analyze_symbol returns a result exactly when the price series exists,
\* has at least the minimum window of 250 bars and the selected filter holds
\* on its outcome map; the ranking score of the result is the regime label.
C23_ResultIffDataAndFilter ==
    \A i \in DOMAIN tasks :
        (script = "dart" /\ tasks[i] = "done" /\ items[i].dict) =>
            LET st == PriceStore(items[i].Code) IN
            /\ TaskOutcome(i).kind = "result" <=>
                   ( /\ st.stat = "ok" /\ st.bars >= 250
                     /\ FilterHolds(pattern_type_filter, st) )
            /\ TaskOutcome(i).kind = "result" =>
                   TaskOutcome(i).val[1].sort_score = << st.regime >>

\* the series of the task is analysed up to the filter
Analysable(i) ==
    /\ items[i].dict /\ PriceStore(items[i].Code).stat = "ok"
    /\ RowsAnalysed(PriceStore(items[i].Code).bars) >= MinRows

\* C24: for every window w of the run, above_ma{w} is true exactly when the
\* latest close is above the w-bar average, and the 'ma' filter accepts an
\* instrument exactly when that holds for all windows of the run.
C24_EveryWindowCompared ==
    \A i \in DOMAIN tasks :
        (script = "dart" /\ tasks[i] = "done" /\ Analysable(i)) =>
            LET st == PriceStore(items[i].Code) IN
            /\ TaskOutcome(i).kind = "result" =>
                   \A w \in periods :
                       TaskOutcome(i).val[1].technical_conditions.above_ma[w].v = st.above[w]
            /\ pattern_type_filter = "ma" =>
                   (TaskOutcome(i).kind = "result" <=> \A w \in periods : st.above[w])

\* C29: a run served from the cache requested the same moving-average windows
\* as the run that wrote the entry, and the BatchResult it emits reports
\* exactly the windows it requested.
C29_HitSameParameters ==
    (run = "second" /\ cache_read = "hit" /\ pc = "done") =>
        /\ prev.periods = periods
        /\ \A k \in DOMAIN LastLine.results :
               DOMAIN LastLine.results[k].technical_conditions.above_ma = periods

\* clustering cannot be performed on the frame
CannotCluster(df) ==
    \/ FrameLen(df) < min_data_length
    \/ DistinctRows(df) < n_clusters
    \/ df.nonfinite

\* C25: when clustering cannot be performed (fewer than 200 rows, fewer
\* distinct vectors than clusters, a numerical failure of the clustering step)
\* the call returns with every row labelled -1; otherwise it returns with
\* every row labelled in 0 .. k-1.
C25_SentinelOrLabel ==
    \A c \in DOMAIN regime_call.calls :
        LET df  == regime_call.df
            res == regime_call.calls[c].res
        IN  df.cols =>
              /\ res.kind = "labels"
              /\ \A i \in DOMAIN res.labels :
                    IF CannotCluster(df) THEN res.labels[i] = -1
                    ELSE res.labels[i] \in 0 .. n_clusters - 1

\* C27: two invocations on the same feature history give every row the same
\* label, whatever np.random's global generator holds at either of them.
C27_SameLabels ==
    Len(regime_call.calls) = 2 => regime_call.calls[1].res = regime_call.calls[2].res

C27_Witness ==
    /\ Len(regime_call.calls) = 2
    /\ regime_call.calls[1].np_random # regime_call.calls[2].np_random
    /\ regime_call.calls[1].res.kind = "labels"
    /\ \E i \in DOMAIN regime_call.calls[1].res.labels :
          regime_call.calls[1].res.labels[i] > 0
    /\ regime_call.calls[2].res = regime_call.calls[1].res

\* the two series agree on every bar up to and including position i
AgreeThrough(a, b, i) == i <= Len(a) /\ i <= Len(b) /\ SubSeq(a, 1, i) = SubSeq(b, 1, i)

\* the row of index i in a derived frame, << >> when the frame has none
RowAt(frame, i) == SelectSeq(frame, LAMBDA r : r.idx = i)

\* C26: for two series of at least 200 bars that agree on all bars up to and
\* including index i, the derived feature rows of index i are the same.
C26_Causal ==
    feature_call.frames # << >> =>
        LET a == feature_call.series[1]
            b == feature_call.series[2]
        IN  \A i \in 1 .. Len(a) :
                AgreeThrough(a, b, i) =>
                    RowAt(feature_call.frames[1], i) = RowAt(feature_call.frames[2], i)

C26_Witness ==
    /\ feature_call.frames # << >>
    /\ LET a == feature_call.series[1]
           b == feature_call.series[2]
       IN  /\ AgreeThrough(a, b, SmaWindow) /\ Len(a) > SmaWindow /\ Len(b) > SmaWindow
           /\ a[SmaWindow + 1] # b[SmaWindow + 1]
           /\ RowAt(feature_call.frames[1], SmaWindow) # << >>
           /\ RowAt(feature_call.frames[1], SmaWindow) = RowAt(feature_call.frames[2], SmaWindow)
           /\ RowAt(feature_call.frames[1], SmaWindow + 1) # RowAt(feature_call.frames[2], SmaWindow + 1)

C28_AlwaysReturns == <>(refresh.pc = "returned")

====
